---- MODULE Spec2Model ----
(***************************************************************************)
(* A model of benchexec's cgroup abstraction: the abstract resource group  *)
(* (src/benchexec/cgroups.py) and its cgroups-v1 implementation            *)
(* (src/benchexec/cgroupsv1.py).                                           *)
(*                                                                         *)
(* The kernel's cgroup filesystem is a set of directories; a directory is  *)
(* a sequence of names whose first element is the hierarchy (the mount).   *)
(* Processes are members of at most one directory per hierarchy.  The      *)
(* program is single-threaded; the environment (processes that fork and    *)
(* exit, the kernel completing a freeze, other actors removing empty       *)
(* directories) interleaves with the steps of remove() and                 *)
(* kill_all_tasks().                                                       *)
(*                                                                         *)
(* Spec follows the life of one instance through all of its operations;    *)
(* SpecKill follows the teardown of a populated tree of groups, with       *)
(* processes that fork while it goes on.  SpecHost applies the functions   *)
(* that read the host's files (version detection, own groups, discovery,   *)
(* I/O statistics, the memory limit) to bounded contents of those files;   *)
(* SpecDummy follows the calls made on the Dummy instance; SpecKillOn is    *)
(* the teardown under fairness, for what must eventually happen.           *)
(***************************************************************************)
EXTENDS Integers, Sequences, FiniteSets, TLC

(* ------------------------------ bounds -------------------------------- *)
\* process ids are 1..MaxPid; pids above 1 are unused at the start (forks)
MaxPid == 2
\* names a directory's children can have (tempfile.mkdtemp picks among them)
MaxName == 2
\* cap on the attempt counter i of the kill loop
MaxTry == 3
\* cap on the per-controller count of diagnostics
LogCap == 2
\* the calls one behaviour makes on the instance
MaxCalls == 3
\* the groups other actors remove during one behaviour
MaxForeign == 1

(* ---------------------------- vocabulary ------------------------------ *)
FREEZE == "freezer"
MEMORY == "memory"
CPU == "cpuacct"
\* the controllers of known_subsystems the model follows
known_subsystems == {CPU, FREEZE, MEMORY}

SIGKILL == "SIGKILL"
SIGINT == "SIGINT"
SIGTERM == "SIGTERM"
\* the order in which one attempt of the kill loop sends its signals
Signals == <<SIGKILL, SIGINT, SIGTERM>>

Pids == 1..MaxPid
Names == 1..MaxName
\* the empty path (no directory)
NoPath == << >>

VARIABLES
    dirs,        \* the directories that exist
    proc,        \* pid -> [st, grp]: state, and the directories it is a member of
    freezer,     \* [dir, st]: the directory whose freezer.state was written, its state
    subsystems,  \* self.subsystems: controller -> path
    paths,       \* self.paths: the distinct paths
    unusable_subsystems,  \* self.unusable_subsystems
    denied_subsystems,    \* self.denied_subsystems: controller -> path
    valid,       \* FALSE once remove() has deleted self.paths and self.subsystems
    child,       \* the mapping of the group the last call returned (<< >>: none)
    logged,      \* controller -> number of diagnostics require_subsystem logged for it
    pc,          \* where the program is
    k,           \* the frame of kill_all_tasks
    f,           \* the frame of _kill_all_tasks_in_cgroup
    r,           \* the frame of remove() and _remove_cgroup
    q,           \* the frame of require_subsystem
    foreign,     \* the number of groups other actors have removed
    call         \* the running (res = "") or last call: arguments, history, result

vars == <<dirs, proc, freezer, subsystems, paths, unusable_subsystems,
          denied_subsystems, valid, child, logged, pc, k, f, r, q, foreign, call>>

fsVars == <<dirs, proc, freezer>>
selfVars == <<subsystems, paths, unusable_subsystems, denied_subsystems, valid>>

(* ------------------------------ paths --------------------------------- *)
Parent(d) == SubSeq(d, 1, Len(d) - 1)

IsUnder(x, d) == Len(x) > Len(d) /\ SubSeq(x, 1, Len(d)) = d

Descendants(d) == {x \in dirs : IsUnder(x, d)}

Children(d) == {x \in dirs : Len(x) = Len(d) + 1 /\ Parent(x) = d}

Range(m) == {m[c] : c \in DOMAIN m}

\* a function with one key less (del m[key])
Without(m, key) == [c \in DOMAIN m \ {key} |-> m[c]]

\* a function with one key set (m[key] = v)
With(m, key, v) == [c \in DOMAIN m \cup {key} |-> IF c = key THEN v ELSE m[c]]

\* s is an order in which the set S can be iterated
IsOrderOf(s, S) ==
    /\ DOMAIN s = 1..Cardinality(S)
    /\ {s[i] : i \in DOMAIN s} = S

\* all orders in which a set can be iterated
Orders(S) == {s \in [1..Cardinality(S) -> S] : \A i, j \in 1..Cardinality(S) : s[i] = s[j] => i = j}

(* ----------------------------- processes ------------------------------ *)
Alive(p) == proc[p].st \in {"run", "dying"}

\* the pids a directory's membership file (tasks, cgroup.procs) lists
Members(d) == {p \in Pids : Alive(p) /\ d \in proc[p].grp}

InFrozenTree(p) ==
    /\ freezer.st # "THAWED"
    /\ \E d \in proc[p].grp : d = freezer.dir \/ IsUnder(d, freezer.dir)

\* a frozen process neither runs nor dies before its group is thawed
Frozen(p) == freezer.st = "FROZEN" /\ InFrozenTree(p)

(* ------------------------------ frames -------------------------------- *)
\* a path value of the program: a pathlib.Path or a str
AsPath(d) == [ty |-> "Path", p |-> d]

\* os.path.join(dirpath, name): a str
os_path_join(dirpath, name) == [ty |-> "str", p |-> Append(dirpath, name)]

\* cgroup / "tasks", path / "cgroup.procs": defined on a pathlib.Path only
CanDiv(cg) == cg.ty = "Path"

NoK == [phase |-> 0, todo |-> {}, top |-> NoPath, walk |-> << >>, delete |-> FALSE]
NoF == [cg |-> AsPath(NoPath), ensure_empty |-> FALSE, i |-> 0, sig |-> 0,
        snap |-> {}, caller |-> "", slept |-> 0]
NoR == [todo |-> {}, cur |-> AsPath(NoPath), owner |-> ""]

NoQ == [subsystem |-> "", test |-> NoPath]

\* the record of the call under way or just ended: the n-th call, its operation, how it ended (res = "" while it
\* runs), and what happened during it: FROZEN and THAWED were written, a process forked
\* in the tree being frozen, require_subsystem was called for a controller that was
\* unusable already; the set of controllers passed to create_fresh_child_cgroup or
\* handle_errors; what stat and systeminfo told handle_errors, the hint it chose
NoCall == [n |-> 0, op |-> "", res |-> "",
           froze |-> FALSE, thawed |-> FALSE, frzFork |-> FALSE, again |-> FALSE,
           arg |-> {}, stat |-> << >>, systemd |-> FALSE, debian |-> FALSE, hint |-> ""]

\* the call that starts now
Begin(op) == [NoCall EXCEPT !.op = op, !.n = call.n + 1]

\* the caller makes one more call
CanCall == pc = "idle" /\ call.n < MaxCalls

(* ----------------------------- os.walk -------------------------------- *)
\* the names in the order scandir lists them (the order is the filesystem's)
NameSeq(asc) == [n \in 1..MaxName |-> IF asc THEN n ELSE MaxName + 1 - n]

\* the subdirectories of d, in listing order
ChildSeq(d, asc) == SelectSeq([n \in 1..MaxName |-> Append(d, NameSeq(asc)[n])],
                              LAMBDA x : x \in dirs)

RECURSIVE WalkBottomUp(_, _)
RECURSIVE WalkEach(_, _)
\* os.walk(d, topdown=False): the dirpath of every tuple, a directory after its
\* subdirectories
WalkBottomUp(d, asc) == WalkEach(ChildSeq(d, asc), asc) \o <<d>>
WalkEach(ds, asc) ==
    IF ds = << >> THEN << >> ELSE WalkBottomUp(Head(ds), asc) \o WalkEach(Tail(ds), asc)

RECURSIVE WalkTopDown(_, _)
RECURSIVE WalkEachTopDown(_, _)
\* os.walk(d, topdown=True): a directory before its subdirectories
WalkTopDown(d, asc) == <<d>> \o WalkEachTopDown(ChildSeq(d, asc), asc)
WalkEachTopDown(ds, asc) ==
    IF ds = << >> THEN << >>
    ELSE WalkTopDown(Head(ds), asc) \o WalkEachTopDown(Tail(ds), asc)

\* the walk of a variant of the program that passes topdown=True
os_walk_topdown(cgroup, asc) == WalkTopDown(cgroup, asc)

\* os.walk(cgroup, topdown=False)
os_walk(cgroup, asc) == WalkBottomUp(cgroup, asc)

RECURSIVE SubCgroups(_, _)
\* for dirpath, dirs, _files in os.walk(...): for subCgroup in dirs:
\*     subCgroup = os.path.join(dirpath, subCgroup)
SubCgroups(tuples, asc) ==
    IF tuples = << >> THEN << >>
    ELSE [n \in 1..Len(ChildSeq(Head(tuples), asc)) |->
             os_path_join(Head(tuples), ChildSeq(Head(tuples), asc)[n][Len(Head(tuples)) + 1])]
         \o SubCgroups(Tail(tuples), asc)

\* the subCgroups kill_all_tasks_in_cgroup_recursively(cgroup, _) visits, in order
\* (os.walk ignores a top that does not exist)
Visits(cgroup, asc) ==
    IF cgroup \in dirs THEN SubCgroups(os_walk(cgroup, asc), asc) ELSE << >>

(* ------------------------------- Init --------------------------------- *)
ShapeFreezer == (FREEZE :> <<1>>) @@ (MEMORY :> <<2>>) @@ (CPU :> <<2>>)
ShapePlain == (MEMORY :> <<2>>) @@ (CPU :> <<3>>)
Shapes == {ShapeFreezer, ShapePlain}

\* the hierarchy whose subtree the initial states populate
FirstPath(shape) == IF FREEZE \in DOMAIN shape THEN shape[FREEZE] ELSE shape[MEMORY]

\* the descendant groups that exist at the start
Trees(shape) == { {}, {Append(FirstPath(shape), 1)},
                  {Append(FirstPath(shape), 1), Append(Append(FirstPath(shape), 1), 1)} }

Deepest(shape, tree) ==
    CHOOSE d \in tree \cup {FirstPath(shape)} :
        \A e \in tree \cup {FirstPath(shape)} : Len(e) <= Len(d)

\* where process 1 is at the start: outside, in the group itself, in its deepest descendant
Placements(shape, tree) ==
    { {}, Range(shape), (Range(shape) \ {FirstPath(shape)}) \cup {Deepest(shape, tree)} }

InitProc(grp1) ==
    [p \in Pids |-> IF p = 1 THEN [st |-> "run", grp |-> grp1]
                    ELSE [st |-> "free", grp |-> {}]]

\* Cgroups.__init__(subsystems): assert all(self.subsystems.values()); the groups
\* of tree exist below it, process 1 is a member of grp1
InitWith(shape, tree, grp1) ==
        /\ \A c \in DOMAIN shape : shape[c] # NoPath
        /\ dirs = Range(shape) \cup tree
        /\ proc = InitProc(grp1)
        /\ freezer = [dir |-> NoPath, st |-> "THAWED"]
        /\ subsystems = shape
        /\ paths = Range(shape)
        /\ unusable_subsystems = {}
        /\ denied_subsystems = << >>
        /\ valid = TRUE
        /\ child = << >>
        /\ logged = [c \in known_subsystems |-> 0]
        /\ pc = "idle"
        /\ k = NoK
        /\ f = NoF
        /\ r = NoR
        /\ q = NoQ
        /\ foreign = 0
        /\ call = NoCall

\* a group without descendant groups; process 1 is outside or a member
Init == \E shape \in Shapes : \E grp1 \in {{}, Range(shape)} : InitWith(shape, {}, grp1)

\* a group with or without descendant groups and member processes
InitKill ==
    \E shape \in Shapes : \E tree \in Trees(shape) : \E grp1 \in Placements(shape, tree) :
        InitWith(shape, tree, grp1)

(* ---------------------------- environment ----------------------------- *)
\* the host process lives, and the caller is not just taking a result
Living == pc \notin {"exited", "returned"}

\* a process that was sent SIGKILL exits, unless frozen
env_exit(p) ==
    /\ Living
    /\ proc[p].st = "dying"
    /\ ~Frozen(p)
    /\ proc' = [proc EXCEPT ![p] = [st |-> "gone", grp |-> {}]]
    /\ UNCHANGED <<dirs, freezer, selfVars, child, logged, pc, k, f, r, q, foreign, call>>

\* a member process forks: the child is a member of its parent's groups
env_fork(p) ==
    /\ Living
    /\ proc[p].st = "run"
    /\ proc[p].grp # {}
    /\ ~Frozen(p)
    /\ \E c \in Pids :
        /\ proc[c].st = "free"
        /\ \A b \in Pids : proc[b].st = "free" => c <= b
        /\ proc' = [proc EXCEPT ![c] = [st |-> "run", grp |-> proc[p].grp]]
    /\ call' = IF call.op = "kill_all_tasks" /\ call.res = "" /\ InFrozenTree(p)
               THEN [call EXCEPT !.frzFork = TRUE] ELSE call
    /\ UNCHANGED <<dirs, freezer, selfVars, child, logged, pc, k, f, r, q, foreign>>

\* the kernel has frozen every task of the group whose freezer.state was written
env_frozen ==
    /\ Living
    /\ freezer.st = "FREEZING"
    /\ freezer' = [freezer EXCEPT !.st = "FROZEN"]
    /\ UNCHANGED <<dirs, proc, selfVars, child, logged, pc, k, f, r, q, foreign, call>>

\* another actor removes an empty group
env_rmdir(d) ==
    /\ Living
    /\ foreign < MaxForeign
    /\ foreign' = foreign + 1
    /\ d \in dirs
    /\ Children(d) = {}
    /\ Members(d) = {}
    /\ dirs' = dirs \ {d}
    /\ freezer' = IF freezer.dir = d THEN [dir |-> NoPath, st |-> "THAWED"] ELSE freezer
    /\ UNCHANGED <<proc, selfVars, child, logged, pc, k, f, r, q, call>>

(* ------------------------- how a call ends ---------------------------- *)
\* the running call ends (returns, or raises res); every frame is popped and the
\* caller has the result
Ends(res) ==
    /\ pc' = "returned"
    /\ k' = NoK
    /\ f' = NoF
    /\ r' = NoR
    /\ q' = NoQ
    /\ call' = [call EXCEPT !.res = res]

\* the call that starts now ends at once
EndsAtOnce(op, res) ==
    /\ pc' = "returned"
    /\ call' = [Begin(op) EXCEPT !.res = res]
    /\ UNCHANGED <<k, f, r, q>>

\* the caller goes on after a call that returned or raised; what the call gave
\* it is its own from now on
caller_goes_on ==
    /\ pc = "returned"
    /\ pc' = "idle"
    /\ call' = [NoCall EXCEPT !.n = call.n]
    /\ child' = << >>
    /\ UNCHANGED <<fsVars, selfVars, logged, k, f, r, q, foreign>>

(* -------------------------- kill_all_tasks ---------------------------- *)
\* util.kill_process(pid, sig): SIGKILL ends a process (once it runs again, if it is
\* frozen); the other signals may be handled or ignored; signalling a process that
\* is gone is not an error
kill_process(pids, sig) ==
    [p \in Pids |-> IF p \in pids /\ proc[p].st = "run" /\ sig = SIGKILL
                    THEN [proc[p] EXCEPT !.st = "dying"] ELSE proc[p]]

\* the loop over the subCgroups goes on
AfterSubCgroup ==
    /\ k' = [k EXCEPT !.walk = Tail(k.walk)]
    /\ pc' = IF Tail(k.walk) = << >> THEN "k_top" ELSE "k_sub"
    /\ f' = NoF
    /\ r' = NoR

\* kill_all_tasks(): up to util.write_file("FROZEN", freezer_file)
kill_all_tasks ==
    /\ CanCall
    /\ child' = << >>
    /\ IF ~valid
       THEN EndsAtOnce("kill_all_tasks", "AttributeError") /\ UNCHANGED freezer
       ELSE IF FREEZE \in DOMAIN subsystems
       THEN IF subsystems[FREEZE] \in dirs
            THEN /\ freezer' = [dir |-> subsystems[FREEZE], st |-> "FREEZING"]
                 /\ call' = [Begin("kill_all_tasks") EXCEPT !.froze = TRUE]
                 /\ pc' = "k_walk"
                 /\ k' = [NoK EXCEPT !.phase = 1, !.top = subsystems[FREEZE]]
                 /\ UNCHANGED <<f, r, q>>
            ELSE EndsAtOnce("kill_all_tasks", "FileNotFoundError") /\ UNCHANGED freezer
       ELSE /\ call' = Begin("kill_all_tasks")
            /\ pc' = "k_next"
            /\ k' = [NoK EXCEPT !.phase = 2, !.todo = paths]
            /\ UNCHANGED <<freezer, f, r, q>>
    /\ UNCHANGED <<dirs, proc, selfVars, logged, foreign>>

\* kill_all_tasks_in_cgroup_recursively(cgroup, delete=False): os.walk lists the tree
kill_walk(asc) ==
    /\ pc = "k_walk"
    /\ k' = [k EXCEPT !.walk = Visits(k.top, asc)]
    /\ pc' = IF Visits(k.top, asc) = << >> THEN "k_top" ELSE "k_sub"
    /\ UNCHANGED <<fsVars, selfVars, child, logged, f, r, q, foreign, call>>

\* for cgroup in self.paths: kill_all_tasks_in_cgroup_recursively(cgroup, delete=True):
\* os.walk lists the tree; after the last path kill_all_tasks returns
kill_next(asc) ==
    /\ pc = "k_next"
    /\ IF k.todo = {}
       THEN Ends("ok")
       ELSE /\ \E cgroup \in k.todo :
                /\ k' = [phase |-> 2, todo |-> k.todo \ {cgroup}, top |-> cgroup,
                         walk |-> Visits(cgroup, asc), delete |-> TRUE]
                /\ pc' = IF Visits(cgroup, asc) = << >> THEN "k_top" ELSE "k_sub"
            /\ UNCHANGED <<f, r, q, call>>
    /\ UNCHANGED <<fsVars, selfVars, child, logged, foreign>>

\* _kill_all_tasks_in_cgroup(cgroup, ensure_empty): tasksFile = cgroup / "tasks"
EnterKillPass(cgroup, caller) ==
    IF CanDiv(cgroup)
    THEN /\ f' = [NoF EXCEPT !.cg = cgroup, !.ensure_empty = k.delete, !.i = 1,
                             !.sig = 1, !.caller = caller]
         /\ pc' = "p_read"
         /\ UNCHANGED <<k, r, q, call>>
    ELSE Ends("TypeError")

\* _kill_all_tasks_in_cgroup(subCgroup, ensure_empty=delete)
kill_subCgroup ==
    /\ pc = "k_sub"
    /\ EnterKillPass(Head(k.walk), "sub")
    /\ UNCHANGED <<fsVars, selfVars, child, logged, foreign>>

\* _kill_all_tasks_in_cgroup(cgroup, ensure_empty=delete)
kill_cgroup ==
    /\ pc = "k_top"
    /\ EnterKillPass(AsPath(k.top), "top")
    /\ UNCHANGED <<fsVars, selfVars, child, logged, foreign>>

\* with open(tasksFile, "rt") as tasks: the pids of the group, none if the file is gone
pass_read ==
    /\ pc = "p_read"
    /\ f' = [f EXCEPT !.snap = IF f.cg.p \in dirs THEN Members(f.cg.p) ELSE {}]
    /\ pc' = "p_signal"
    /\ UNCHANGED <<fsVars, selfVars, child, logged, k, r, q, foreign, call>>

\* _kill_all_tasks_in_cgroup returns to kill_all_tasks_in_cgroup_recursively
PassReturns ==
    IF f.caller = "sub"
    THEN IF k.delete
         THEN \* self._remove_cgroup(subCgroup): if not os.path.exists(path): return
              IF f.cg.p \in dirs
              THEN /\ r' = [NoR EXCEPT !.cur = f.cg, !.owner = "kill"]
                   /\ pc' = "r_has_tasks"
                   /\ f' = NoF
                   /\ UNCHANGED <<k, q, call>>
              ELSE AfterSubCgroup /\ UNCHANGED <<q, call>>
         ELSE AfterSubCgroup /\ UNCHANGED <<q, call>>
    ELSE /\ pc' = IF k.phase = 1 THEN "k_thaw" ELSE "k_next"
         /\ f' = NoF
         /\ UNCHANGED <<k, r, q, call>>

\* variant: the sleep does not grow with the attempts
ConstantBackoff(i) == 1

\* time.sleep(i * 0.5), in halves of a time unit
Backoff(i) == i

\* variant: the loop returns after its first pass, whatever the pass read
ReturnsAfterOnePass(snap, ensure_empty) == TRUE

\* variant: the loop goes on although the pass read no pid
ReturnsIfNotWaiting(snap, ensure_empty) == ~ensure_empty

\* "if task is None or not ensure_empty: return"
LoopReturns(snap, ensure_empty) == snap = {} \/ ~ensure_empty

\* util.kill_process(int(task), sig) for every pid read; then return if no pid was
\* read or not ensure_empty, else time.sleep(i * 0.5) and go on with the next signal,
\* after the last one with the next attempt
pass_signal ==
    /\ pc = "p_signal"
    /\ proc' = kill_process(f.snap, Signals[f.sig])
    /\ IF LoopReturns(f.snap, f.ensure_empty)
       THEN PassReturns
       ELSE /\ f.sig < Len(Signals) \/ f.i < MaxTry
            /\ f' = [f EXCEPT !.slept = Backoff(f.i),
                              !.sig = IF f.sig < Len(Signals) THEN f.sig + 1 ELSE 1,
                              !.i = IF f.sig < Len(Signals) THEN f.i ELSE f.i + 1,
                              !.snap = {}]
            /\ pc' = "p_read"
            /\ UNCHANGED <<k, r, q, call>>
    /\ UNCHANGED <<dirs, freezer, selfVars, child, logged, foreign>>

\* the same step of a loop that is followed without end: the attempts from the
\* MaxTry-th on are not told apart
pass_signal_on ==
    /\ pc = "p_signal"
    /\ proc' = kill_process(f.snap, Signals[f.sig])
    /\ IF LoopReturns(f.snap, f.ensure_empty)
       THEN PassReturns
       ELSE /\ f' = [f EXCEPT !.slept = Backoff(f.i),
                              !.sig = IF f.sig < Len(Signals) THEN f.sig + 1 ELSE 1,
                              !.i = IF f.sig < Len(Signals) \/ f.i >= MaxTry THEN f.i ELSE f.i + 1,
                              !.snap = {}]
            /\ pc' = "p_read"
            /\ UNCHANGED <<k, r, q, call>>
    /\ UNCHANGED <<dirs, freezer, selfVars, child, logged, foreign>>

\* util.write_file("THAWED", freezer_file)
kill_thaw ==
    /\ pc = "k_thaw"
    /\ IF k.top \in dirs
       THEN /\ freezer' = [dir |-> NoPath, st |-> "THAWED"]
            /\ call' = [call EXCEPT !.thawed = TRUE]
            /\ pc' = "k_next"
            /\ k' = [NoK EXCEPT !.phase = 2, !.todo = paths]
            /\ UNCHANGED <<f, r, q>>
       ELSE Ends("FileNotFoundError") /\ UNCHANGED freezer
    /\ UNCHANGED <<dirs, proc, selfVars, child, logged, foreign>>

(* --------------------- demotion of a controller ----------------------- *)
Min(a, b) == IF a < b THEN a ELSE b

\* the exceptions of the model that are an OSError
OSErrors == {"FileNotFoundError", "EACCES", "ENOSPC", "ENOENT"}

\* log_method(...): one more diagnostic about the controller
LoggedAfter(subsystem) == [logged EXCEPT ![subsystem] = Min(@ + 1, LogCap)]

\* the unusable set of a variant that does not record the failed controller
UnusableNotRecorded(subsystem) == unusable_subsystems

\* self.unusable_subsystems.add(subsystem)
UnusableAfterDemotion(subsystem) == unusable_subsystems \cup {subsystem}

\* the denied map of a variant for which every failure counts as access denied
DeniedWhateverTheError(subsystem, errno) ==
    With(denied_subsystems, subsystem, subsystems[subsystem])

\* if e.errno == errno.EACCES: self.denied_subsystems[subsystem] = self.subsystems[subsystem]
DeniedAfterDemotion(subsystem, errno) ==
    IF errno = "EACCES" THEN With(denied_subsystems, subsystem, subsystems[subsystem])
    ELSE denied_subsystems

\* the mapping of a variant that leaves the failed controller in it
SubsystemsKept(subsystem) == subsystems

\* del self.subsystems[subsystem]
SubsystemsAfterDemotion(subsystem) == Without(subsystems, subsystem)

\* the distinct paths of a variant that does not compute them again
PathsKept(subsystem) == paths

\* self.paths = set(self.subsystems.values())
PathsAfterDemotion(subsystem) == Range(SubsystemsAfterDemotion(subsystem))

\* the except OSError branch of require_subsystem
Demote(subsystem, errno) ==
    /\ logged' = LoggedAfter(subsystem)
    /\ unusable_subsystems' = UnusableAfterDemotion(subsystem)
    /\ denied_subsystems' = DeniedAfterDemotion(subsystem, errno)
    /\ subsystems' = SubsystemsAfterDemotion(subsystem)
    /\ paths' = PathsAfterDemotion(subsystem)
    /\ UNCHANGED valid

(* ------------------------------ remove -------------------------------- *)
\* the instance of a variant whose remove() leaves the attributes in place
AttributesKept == TRUE

\* del self.paths; del self.subsystems
DeleteAttributes == FALSE

\* os.rmdir(d) succeeds: the group exists, is empty and the kernel is done with it
RmdirSucceeds(d, busy) ==
    d \in dirs /\ Children(d) = {} /\ Members(d) = {} /\ ~busy

\* the filesystem after a successful os.rmdir(d)
Rmdir(d) ==
    /\ dirs' = dirs \ {d}
    /\ freezer' = IF freezer.dir = d THEN [dir |-> NoPath, st |-> "THAWED"] ELSE freezer

\* remove(): for cgroup in self.paths
remove ==
    /\ CanCall
    /\ child' = << >>
    /\ IF ~valid
       THEN EndsAtOnce("remove", "AttributeError")
       ELSE /\ call' = Begin("remove")
            /\ pc' = "r_next"
            /\ r' = [NoR EXCEPT !.todo = paths, !.owner = "remove"]
            /\ UNCHANGED <<k, f, q>>
    /\ UNCHANGED <<fsVars, selfVars, logged, foreign>>

\* the next cgroup of the loop: _remove_cgroup(cgroup) returns with a warning if
\* not os.path.exists(path); after the last one remove() deletes the attributes
\* (those of the instance, or those of require_subsystem's test_cgroup)
remove_next ==
    /\ pc = "r_next"
    /\ IF r.todo = {}
       THEN IF r.owner = "remove"
            THEN /\ valid' = DeleteAttributes
                 /\ Ends("ok")
                 /\ UNCHANGED <<subsystems, paths, unusable_subsystems, denied_subsystems>>
            ELSE Ends("True") /\ UNCHANGED selfVars
       ELSE /\ \E d \in r.todo :
                /\ r' = [r EXCEPT !.todo = r.todo \ {d},
                                  !.cur = IF d \in dirs THEN AsPath(d) ELSE r.cur]
                /\ pc' = IF d \in dirs THEN "r_has_tasks" ELSE "r_next"
            /\ UNCHANGED <<selfVars, k, f, q, call>>
    /\ UNCHANGED <<fsVars, child, logged, foreign>>

\* _remove_cgroup returns to its caller
RemoveCgroupReturns ==
    IF r.owner = "kill"
    THEN AfterSubCgroup /\ UNCHANGED <<q, call>>
    ELSE pc' = "r_next" /\ UNCHANGED <<k, f, r, q, call>>

\* _remove_cgroup raises: require_subsystem catches an OSError of test_cgroup.remove(),
\* any other caller lets it pass
RemoveCgroupRaises(err) ==
    IF r.owner = "test" /\ err \in OSErrors
    THEN Demote(q.subsystem, "ENOENT") /\ Ends("False")
    ELSE Ends(err) /\ UNCHANGED <<selfVars, logged>>

\* assert not self.has_tasks(path): (path / "cgroup.procs").read_bytes()
remove_has_tasks ==
    /\ pc = "r_has_tasks"
    /\ IF ~CanDiv(r.cur) THEN RemoveCgroupRaises("TypeError")
       ELSE IF r.cur.p \notin dirs THEN RemoveCgroupRaises("FileNotFoundError")
       ELSE IF Members(r.cur.p) # {} THEN RemoveCgroupRaises("AssertionError")
       ELSE /\ pc' = "r_rmdir"
            /\ UNCHANGED <<selfVars, logged, k, f, r, q, call>>
    /\ UNCHANGED <<fsVars, child, foreign>>

\* try: os.rmdir(path)
remove_rmdir(busy) ==
    /\ pc = "r_rmdir"
    /\ IF RmdirSucceeds(r.cur.p, busy)
       THEN Rmdir(r.cur.p) /\ RemoveCgroupReturns
       ELSE /\ pc' = "r_rmdir_again"
            /\ UNCHANGED <<dirs, freezer, k, f, r, q, call>>
    /\ UNCHANGED <<proc, selfVars, child, logged, foreign>>

\* variant: the OSError of the second os.rmdir is not caught
SecondFailureRaises == Ends("OSError")

\* "except OSError as e: logging.warning("Failed to remove cgroup ...")": the
\* second failure is warned about and _remove_cgroup returns
SecondFailure == RemoveCgroupReturns

\* except OSError: try: os.rmdir(path) except OSError: logging.warning(...)
remove_rmdir_again(busy) ==
    /\ pc = "r_rmdir_again"
    /\ IF RmdirSucceeds(r.cur.p, busy)
       THEN Rmdir(r.cur.p) /\ RemoveCgroupReturns
       ELSE UNCHANGED <<dirs, freezer>> /\ SecondFailure
    /\ UNCHANGED <<proc, selfVars, child, logged, foreign>>

(* ------------------------- require_subsystem -------------------------- *)
FreeNames(parent) == {n \in Names : Append(parent, n) \notin dirs}

\* tempfile.mkdtemp(prefix=..., dir=parent): a directory with a name not in use (which
\* of the free names is immaterial; the model takes the smallest)
mkdtemp(parent) ==
    Append(parent, CHOOSE n \in FreeNames(parent) : \A m \in FreeNames(parent) : n <= m)

\* mkdtemp after the directories of made have been created
mkdtempAfter(made, parent) ==
    Append(parent, CHOOSE n \in Names :
        /\ Append(parent, n) \notin dirs \cup made
        /\ \A m \in Names : Append(parent, m) \notin dirs \cup made => n <= m)

\* how mkdtemp can end in the parent: "ok", or the errno of its OSError
MkdtempOutcomes(parent) ==
    IF parent \notin dirs THEN {"ENOENT"}
    ELSE {"EACCES", "ENOSPC"} \cup (IF FreeNames(parent) # {} THEN {"ok"} ELSE {})

\* require_subsystem(subsystem): up to test_cgroup = create_fresh_child_cgroup([subsystem]),
\* out is how its mkdtemp ends ("none": the call does not get there)
require_subsystem(subsystem, out) ==
    /\ CanCall
    /\ child' = << >>
    /\ IF ~valid
       THEN /\ out = "none"
            /\ EndsAtOnce("require_subsystem", "AttributeError")
            /\ UNCHANGED <<dirs, selfVars, logged>>
       ELSE IF subsystem \notin DOMAIN subsystems
       THEN /\ out = "none"
            /\ unusable_subsystems' = unusable_subsystems \cup {subsystem}
            /\ logged' = IF subsystem \in unusable_subsystems THEN logged
                         ELSE LoggedAfter(subsystem)
            /\ pc' = "returned"
            /\ call' = [Begin("require_subsystem") EXCEPT
                            !.res = "False", !.again = subsystem \in unusable_subsystems]
            /\ UNCHANGED <<k, f, r, q>>
            /\ UNCHANGED <<dirs, subsystems, paths, denied_subsystems, valid>>
       ELSE /\ out \in MkdtempOutcomes(subsystems[subsystem])
            /\ IF out = "ok"
               THEN /\ dirs' = dirs \cup {mkdtemp(subsystems[subsystem])}
                    /\ q' = [subsystem |-> subsystem, test |-> mkdtemp(subsystems[subsystem])]
                    /\ r' = [NoR EXCEPT !.todo = {mkdtemp(subsystems[subsystem])},
                                        !.owner = "test"]
                    /\ pc' = "r_next"
                    /\ call' = Begin("require_subsystem")
                    /\ UNCHANGED <<selfVars, logged, k, f>>
               ELSE /\ Demote(subsystem, out)
                    /\ EndsAtOnce("require_subsystem", "False")
                    /\ UNCHANGED dirs
    /\ UNCHANGED <<proc, freezer, foreign>>

(* --------------------- create_fresh_child_cgroup ---------------------- *)
\* the test of a variant that never reuses a created child
NeverReused(createdCgroupsPerParent, parentCgroup) == FALSE

\* if parentCgroup in createdCgroupsPerParent
AlreadyCreated(createdCgroupsPerParent, parentCgroup) ==
    parentCgroup \in DOMAIN createdCgroupsPerParent

NoCreated == [made |-> {}, perSubsystem |-> << >>, perParent |-> << >>, err |-> ""]

RECURSIVE CreateLoop(_, _, _, _)
\* for subsystem in subsystems: ... from the i-th on; the mkdtemp of iteration bad
\* fails, and so does one in a parent that is gone or full
\* (the copies of cpuset.cpus and cpuset.mems change no state the model follows)
CreateLoop(order, i, bad, acc) ==
    IF i > Len(order) THEN acc
    ELSE IF AlreadyCreated(acc.perParent, subsystems[order[i]])
    THEN CreateLoop(order, i + 1, bad,
             [acc EXCEPT !.perSubsystem =
                 With(@, order[i], acc.perParent[subsystems[order[i]]])])
    ELSE IF \/ i = bad
            \/ subsystems[order[i]] \notin dirs
            \/ \A n \in Names : Append(subsystems[order[i]], n) \in dirs \cup acc.made
    THEN [acc EXCEPT !.err = "OSError"]
    ELSE CreateLoop(order, i + 1, bad,
             [made |-> acc.made \cup {mkdtempAfter(acc.made, subsystems[order[i]])},
              perSubsystem |-> With(acc.perSubsystem, order[i],
                                    mkdtempAfter(acc.made, subsystems[order[i]])),
              perParent |-> With(acc.perParent, subsystems[order[i]],
                                 mkdtempAfter(acc.made, subsystems[order[i]])),
              err |-> ""])

\* create_fresh_child_cgroup(S) ends with res
Created(S, res) ==
    /\ pc' = "returned"
    /\ call' = [Begin("create_fresh_child_cgroup") EXCEPT !.res = res, !.arg = S]
    /\ UNCHANGED <<k, f, r, q>>

\* create_fresh_child_cgroup(subsystems): S in the order given, the mkdtemp of
\* iteration bad fails (bad = 0: none does); a call that fails before its loop
\* draws neither
create_fresh_child_cgroup(S, order, bad) ==
    /\ CanCall
    /\ IF ~valid
       THEN /\ order = << >> /\ bad = 0
            /\ Created(S, "AttributeError")
            /\ child' = << >>
            /\ UNCHANGED dirs
       ELSE IF ~(S \subseteq DOMAIN subsystems)
       THEN /\ order = << >> /\ bad = 0
            /\ Created(S, "AssertionError")
            /\ child' = << >>
            /\ UNCHANGED dirs
       ELSE /\ IsOrderOf(order, S)
            /\ bad \in 0..Cardinality(S)
            /\ LET created == CreateLoop(order, 1, bad, NoCreated)
               IN /\ dirs' = dirs \cup created.made
                  /\ IF created.err = ""
                     THEN child' = created.perSubsystem /\ Created(S, "ok")
                     ELSE child' = << >> /\ Created(S, "OSError")
    /\ UNCHANGED <<proc, freezer, selfVars, logged, foreign>>

(* ------------------------------ add_task ------------------------------ *)
\* the groups of a process after its pid was written to the tasks file of cgroup:
\* it leaves the group of the same hierarchy it was in
Attached(grp, cgroup) == {d \in grp : d[1] # cgroup[1]} \cup {cgroup}

RECURSIVE AddLoop(_, _, _, _)
\* for cgroup in self.paths: with open(cgroup / "tasks", "w") as tasksFile:
\*     tasksFile.write(str(pid))
\* acc: the groups of the process, the tasks files written so far, the error raised
AddLoop(order, i, pid, acc) ==
    IF i > Len(order) THEN acc
    ELSE IF order[i] \notin dirs THEN [acc EXCEPT !.err = "FileNotFoundError"]
    ELSE IF ~Alive(pid) THEN [acc EXCEPT !.err = "ProcessLookupError"]
    ELSE AddLoop(order, i + 1, pid,
                 [acc EXCEPT !.grp = Attached(@, order[i]), !.written = Append(@, order[i])])

\* what _register_process_with_cgrulesengd finds: libcgroup cannot be loaded,
\* cgroup_init fails, the registration fails, the process is registered
DaemonStates == {"absent", "init fails", "register fails", "registered"}

\* variant: the OSError of LoadLibrary is not caught
LoadErrorEscapes(daemon) == daemon = "absent"

\* "except OSError: pass": the error of LoadLibrary does not leave the function
LoadErrorRaised(daemon) == FALSE

\* _register_process_with_cgrulesengd(pid): the exception it raises ("": none); a
\* failure of cgroup_init or of the registration is passed over
register_process_with_cgrulesengd(pid, daemon) ==
    IF LoadErrorRaised(daemon) THEN "OSError" ELSE ""

\* what add_task(pid) does to the groups of the process, self.paths iterated in
\* the given order
Added(pid, order) == AddLoop(order, 1, pid, [grp |-> proc[pid].grp, written |-> << >>, err |-> ""])

\* add_task(pid), self.paths iterated in the given order
add_task(pid, order, daemon) ==
    /\ CanCall
    /\ child' = << >>
    /\ IF register_process_with_cgrulesengd(pid, daemon) # ""
       THEN /\ EndsAtOnce("add_task", register_process_with_cgrulesengd(pid, daemon))
            /\ UNCHANGED proc
       ELSE IF ~valid
       THEN EndsAtOnce("add_task", "AttributeError") /\ UNCHANGED proc
       ELSE /\ IsOrderOf(order, paths)
            /\ LET added == Added(pid, order)
               IN /\ proc' = [proc EXCEPT ![pid].grp = added.grp]
                  /\ EndsAtOnce("add_task", IF added.err = "" THEN "ok" ELSE added.err)
    /\ UNCHANGED <<dirs, freezer, selfVars, logged, foreign>>

(* ---------------------------- __contains__ ---------------------------- *)
\* key in self.subsystems
contains(key) ==
    /\ CanCall
    /\ child' = << >>
    /\ IF ~valid THEN EndsAtOnce("contains", "AttributeError")
       ELSE IF key \in DOMAIN subsystems THEN EndsAtOnce("contains", "True")
       ELSE EndsAtOnce("contains", "False")
    /\ UNCHANGED <<fsVars, selfVars, logged, foreign>>

(* --------------------------- handle_errors ---------------------------- *)
\* what path.stat() can give for a denied path: an OSError, or whether the mode has
\* S_IWGRP and the owning group (0 is root)
StatValues == {[err |-> TRUE, wgrp |-> FALSE, gid |-> 0]}
              \cup [err : {FALSE}, wgrp : BOOLEAN, gid : {0, 1}]

StatResults == [Range(denied_subsystems) -> StatValues]

\* the groups of a variant for which the root group counts like any other
GroupsRootCounts(st) ==
    IF \A p \in DOMAIN st : ~st[p].err /\ st[p].wgrp
    THEN {st[p].gid + 1 : p \in DOMAIN st} ELSE {}

\* groups = {path.stat().st_gid for path in paths} if all of them have S_IWGRP,
\* {} if not or if a stat fails
GroupsOf(st) ==
    IF \A p \in DOMAIN st : ~st[p].err /\ st[p].wgrp
    THEN {st[p].gid : p \in DOMAIN st} ELSE {}

\* the permission hint handle_errors chooses
PermissionHint(st, has_systemd, is_debian) ==
    IF GroupsOf(st) # {} /\ 0 \notin GroupsOf(st) THEN "GROUPS"
    ELSE IF has_systemd THEN (IF is_debian THEN "DEBIAN" ELSE "SYSTEMD")
    ELSE "OTHER"

\* handle_errors(critical_cgroups) ends with res: it returns, raises, or
\* sys.exit(message) ends the host process
Handled(critical_cgroups, st, has_systemd, is_debian, res, hint) ==
    /\ pc' = IF res \in {"exit_permissions", "exit_other"} THEN "exited" ELSE "returned"
    /\ call' = [Begin("handle_errors") EXCEPT
                    !.res = res, !.arg = critical_cgroups, !.stat = st,
                    !.systemd = has_systemd, !.debian = is_debian, !.hint = hint]

\* handle_errors(critical_cgroups); st is what stat gives for the denied paths,
\* has_systemd and is_debian what systeminfo says (each drawn only where it is read)
handle_errors(critical_cgroups, st, has_systemd, is_debian) ==
    /\ CanCall
    /\ child' = << >>
    /\ IF critical_cgroups = {}
       THEN /\ st = << >> /\ ~has_systemd /\ ~is_debian
            /\ Handled(critical_cgroups, st, FALSE, FALSE, "ok", "")
       ELSE IF ~(critical_cgroups \subseteq unusable_subsystems)
       THEN /\ st = << >> /\ ~has_systemd /\ ~is_debian
            /\ Handled(critical_cgroups, st, FALSE, FALSE, "AssertionError", "")
       ELSE IF critical_cgroups \subseteq DOMAIN denied_subsystems
       THEN /\ st \in StatResults
            /\ (GroupsOf(st) # {} /\ 0 \notin GroupsOf(st)) => ~has_systemd
            /\ ~has_systemd => ~is_debian
            /\ Handled(critical_cgroups, st, has_systemd, is_debian, "exit_permissions",
                       PermissionHint(st, has_systemd, is_debian))
       ELSE /\ st = << >> /\ ~has_systemd /\ ~is_debian
            /\ Handled(critical_cgroups, st, FALSE, FALSE, "exit_other", "")
    /\ UNCHANGED <<fsVars, selfVars, logged, k, f, r, q, foreign>>

(* ------------------------------- Next --------------------------------- *)
\* the life of an instance: every operation, other actors removing groups
Next ==
    \/ \E p \in Pids : env_exit(p)
    \/ env_frozen
    \/ \E d \in dirs : env_rmdir(d)
    \/ caller_goes_on
    \/ kill_all_tasks
    \/ \E asc \in BOOLEAN : kill_walk(asc)
    \/ \E asc \in BOOLEAN : kill_next(asc)
    \/ kill_subCgroup
    \/ kill_cgroup
    \/ pass_read
    \/ pass_signal
    \/ kill_thaw
    \/ remove
    \/ remove_next
    \/ remove_has_tasks
    \/ \E busy \in BOOLEAN : remove_rmdir(busy)
    \/ \E busy \in BOOLEAN : remove_rmdir_again(busy)
    \/ \E subsystem \in known_subsystems : \E out \in {"none", "ok", "EACCES", "ENOSPC", "ENOENT"} :
           require_subsystem(subsystem, out)
    \/ \E S \in SUBSET known_subsystems :
           \E order \in Orders(S) \cup {<< >>} : \E bad \in 0..Cardinality(S) :
               create_fresh_child_cgroup(S, order, bad)
    \/ \E pid \in Pids : \E order \in Orders(paths) : \E daemon \in DaemonStates :
           add_task(pid, order, daemon)
    \/ \E key \in known_subsystems : contains(key)
    \/ \E critical_cgroups \in SUBSET known_subsystems :
           \E st \in StatResults \cup {<< >>} : \E has_systemd, is_debian \in BOOLEAN :
               handle_errors(critical_cgroups, st, has_systemd, is_debian)

Spec == Init /\ [][Next]_vars

\* the teardown of a populated tree: kill_all_tasks and remove, processes that fork
\* and exit, other actors removing groups
NextKill ==
    \/ \E p \in Pids : env_exit(p)
    \/ \E p \in Pids : env_fork(p)
    \/ env_frozen
    \/ \E d \in dirs : env_rmdir(d)
    \/ caller_goes_on
    \/ kill_all_tasks
    \/ \E asc \in BOOLEAN : kill_walk(asc)
    \/ \E asc \in BOOLEAN : kill_next(asc)
    \/ kill_subCgroup
    \/ kill_cgroup
    \/ pass_read
    \/ pass_signal
    \/ kill_thaw
    \/ remove
    \/ remove_next
    \/ remove_has_tasks
    \/ \E busy \in BOOLEAN : remove_rmdir(busy)
    \/ \E busy \in BOOLEAN : remove_rmdir_again(busy)

SpecKill == InitKill /\ [][NextKill]_vars

\* the teardown followed without end: the program takes its next step as long as a
\* call is under way, and a process that was sent SIGKILL and is not frozen exits;
\* at most MaxPid processes ever exist
KillSteps ==
    \/ \E asc \in BOOLEAN : kill_walk(asc)
    \/ \E asc \in BOOLEAN : kill_next(asc)
    \/ kill_subCgroup
    \/ kill_cgroup
    \/ pass_read
    \/ pass_signal_on
    \/ kill_thaw

RemoveSteps ==
    \/ remove_next
    \/ remove_has_tasks
    \/ \E busy \in BOOLEAN : remove_rmdir(busy)
    \/ \E busy \in BOOLEAN : remove_rmdir_again(busy)

NextKillOn ==
    \/ \E p \in Pids : env_exit(p)
    \/ \E p \in Pids : env_fork(p)
    \/ env_frozen
    \/ \E d \in dirs : env_rmdir(d)
    \/ caller_goes_on
    \/ kill_all_tasks
    \/ remove
    \/ KillSteps
    \/ RemoveSteps

SpecKillOn ==
    /\ InitKill
    /\ [][NextKillOn]_vars
    /\ WF_vars(KillSteps)
    /\ WF_vars(RemoveSteps)
    /\ \A p \in Pids : WF_vars(env_exit(p))

(* ============================ properties ============================== *)
\* a call of op has just ended
Ended(op) == pc \in {"returned", "exited"} /\ call.op = op

\* some process is alive in a group of the instance or in a descendant of one
SomeoneLeft ==
    \E d \in paths : \E p \in Pids :
        Alive(p) /\ \E g \in proc[p].grp : g = d \/ IsUnder(g, d)

(* C1: on a group whose mapping has no freezer controller, kill_all_tasks() returns,
   and when it has, every descendant directory of every distinct path of the
   instance is deleted and no process is left in the instance's directories or
   their descendants. *)
C1_KillWithoutFreezerEmptiesTheTree ==
    (Ended("kill_all_tasks") /\ valid /\ FREEZE \notin DOMAIN subsystems)
        => /\ call.res = "ok"
           /\ \A d \in paths : Descendants(d) = {}
           /\ ~SomeoneLeft

(* C2: with a freezer controller, if a member process forks during the freeze
   phase (after FROZEN was written, before THAWED is), then once kill_all_tasks()
   has ended neither the process nor its child is alive in the group or in a
   descendant. *)
C2_NoProcessEscapesAForkWhileFreezing ==
    (Ended("kill_all_tasks") /\ call.froze /\ call.frzFork) => ~SomeoneLeft

\* the subCgroups still to visit are in bottom-up order: none is followed by one of
\* its descendants
BottomUp(walk) ==
    \A i, j \in 1..Len(walk) : i < j => ~IsUnder(walk[j].p, walk[i].p)

(* C3: within one kill_all_tasks(), a directory is processed only after all of its
   descendants (the subCgroups are visited bottom-up, the group itself after the
   last of them), and a directory is deleted only in the second phase, which, when
   the freezer is used, begins after FROZEN and THAWED were written. *)
C3_BottomUpAndFreezeBeforeDeletion ==
    /\ pc = "k_sub" => BottomUp(k.walk)
    /\ (pc \in {"p_read", "p_signal"} /\ f.caller = "top") => k.walk = << >>
    /\ (pc \in {"p_read", "p_signal"} /\ f.caller = "sub") =>
           /\ f.cg = Head(k.walk)
           /\ \A x \in Descendants(f.cg.p) : \A j \in 1..Len(k.walk) : k.walk[j].p # x
    /\ (pc \in {"r_has_tasks", "r_rmdir", "r_rmdir_again"} /\ r.owner = "kill") =>
           /\ k.phase = 2 /\ k.delete
           /\ call.froze => call.thawed
    /\ k.phase = 1 => (~k.delete /\ call.froze /\ ~call.thawed /\ r = NoR)

\* the walk of the first phase has listed a tree two levels deep
C3_Witness ==
    /\ pc = "k_sub"
    /\ call.froze
    /\ k.phase = 1
    /\ Len(k.walk) = 2
    /\ IsUnder(k.walk[1].p, k.walk[2].p)

(* C4: during kill_all_tasks() and remove(), whatever other actors do, a directory
   or membership file that is gone already does not make the operation raise. *)
C4_TeardownRacesAreAbsorbed ==
    (Ended("kill_all_tasks") \/ Ended("remove")) => call.res # "FileNotFoundError"

\* this step is one of a require_subsystem call that is under way (its probe)
Probing == call.op = "require_subsystem" /\ call.res = ""

\* how mkdtemp can end, and "none" for a call that does not get to it
Outcomes == {"none", "ok", "EACCES", "ENOSPC", "ENOENT"}

\* what C5 says of the step that begins require_subsystem(c): the call fails at once
\* iff c is not in the mapping or the throwaway child cannot be created, with the
\* bookkeeping of the failure; otherwise the probe goes on and nothing has changed
C5_AtTheCall(c, out) ==
    /\ call'.res = "False" <=> (c \notin DOMAIN subsystems \/ out # "ok")
    /\ call'.res = "False" =>
           /\ c \in unusable_subsystems'
           /\ c \notin DOMAIN subsystems'
           /\ \A x \in DOMAIN subsystems \ {c} :
                  x \in DOMAIN subsystems' /\ subsystems'[x] = subsystems[x]
           /\ denied_subsystems' =
                  IF c \in DOMAIN subsystems /\ out = "EACCES"
                  THEN With(denied_subsystems, c, subsystems[c])
                  ELSE denied_subsystems
    /\ call'.res # "False" =>
           /\ call'.res = ""
           /\ UNCHANGED <<subsystems, paths, unusable_subsystems, denied_subsystems, logged>>

\* what C5 says of a step of the probe: it ends with false iff the removal of the
\* throwaway child raises an OS error (which is not 'access denied'), with true when
\* the removal is over (removed tells whether the child must be gone by then)
C5_WhileProbing(removed) ==
    /\ call'.res \in {"", "True", "False"}
    /\ call'.res = "False" =>
           /\ pc = "r_has_tasks" /\ r.cur.p \notin dirs
           /\ q.subsystem \in unusable_subsystems'
           /\ subsystems' = Without(subsystems, q.subsystem)
           /\ denied_subsystems' = denied_subsystems
    /\ call'.res = "True" =>
           /\ pc = "r_next" /\ r.todo = {}
           /\ q.subsystem \in DOMAIN subsystems
           /\ removed => q.test \notin dirs'
    /\ call'.res # "False" =>
           UNCHANGED <<subsystems, paths, unusable_subsystems, denied_subsystems, logged>>

\* what C5 says of every step
C5_Steps(removed) ==
    /\ (call'.op = "require_subsystem" /\ call'.n = call.n + 1 /\ valid) =>
           \A c \in known_subsystems : \A out \in Outcomes :
               require_subsystem(c, out) => C5_AtTheCall(c, out)
    /\ Probing => C5_WhileProbing(removed)
    /\ valid' => DOMAIN subsystems' \subseteq DOMAIN subsystems
    /\ (call'.op = "contains" /\ call'.n = call.n + 1 /\ valid) =>
           \A c \in known_subsystems :
               contains(c) => (call'.res = "True" <=> c \in DOMAIN subsystems)

(* C5, as stated: require_subsystem(c) returns true iff c is in the mapping and a
   throwaway child group can be created under c's path and removed again (it is
   gone when the call returns); on failure c is unusable, denied with its path iff
   the error is 'access denied', and out of the mapping for good; on success
   the mapping, the unusable set and the denied map are unchanged. *)
C5_AsStated == [][C5_Steps(TRUE)]_vars

(* C5, amended: require_subsystem(c) returns true iff c is in the mapping, a
   throwaway child group can be created under c's path and its removal raises no
   OS error (a child that both rmdir attempts fail to remove is left in place);
   on failure c is unusable, denied with its path iff the error is 'access denied',
   and out of the mapping for good; on success the mapping, the unusable set and
   the denied map are unchanged. *)
C5_RequireSubsystemProbes == [][C5_Steps(FALSE)]_vars

\* one probe has failed with 'access denied', a later one has returned true
C5_Witness ==
    /\ Ended("require_subsystem")
    /\ call.res = "True"
    /\ DOMAIN denied_subsystems # {}
    /\ DOMAIN denied_subsystems = unusable_subsystems

\* the controller a failing step of require_subsystem is about
FailsFor(c) ==
    /\ call'.res = "False"
    /\ \/ Probing /\ q.subsystem = c
       \/ \E out \in Outcomes : require_subsystem(c, out)

(* C6: once require_subsystem(c) has returned false (c is in the unusable set from
   then on), every later call for c on the instance returns false, logs nothing
   and leaves the mapping, the unusable set and the denied map unchanged; at most
   one diagnostic is logged per controller. *)
C6_RequireSubsystemIdempotentOnFailure ==
    [][ /\ (call'.op = "require_subsystem" /\ call'.res = "False") =>
               \A c \in known_subsystems : FailsFor(c) => c \in unusable_subsystems'
        /\ unusable_subsystems \subseteq unusable_subsystems'
        /\ (call'.op = "require_subsystem" /\ call'.n = call.n + 1 /\ valid) =>
               \A c \in unusable_subsystems : \A out \in Outcomes :
                   require_subsystem(c, out) =>
                       /\ call'.res = "False"
                       /\ call'.again
                       /\ UNCHANGED <<logged, dirs, subsystems, paths,
                                      unusable_subsystems, denied_subsystems>>
        /\ \A c \in known_subsystems : logged'[c] <= 1
      ]_vars

\* require_subsystem was called again for a controller that had failed
C6_Witness ==
    /\ Ended("require_subsystem")
    /\ call.again
    /\ call.res = "False"
    /\ \E c \in unusable_subsystems : logged[c] = 1

(* C7: as long as the instance has not been removed, every controller of the mapping
   has a non-empty path and no controller of the mapping is in the unusable set. *)
C7_MappingInvariant ==
    valid => /\ \A c \in DOMAIN subsystems : subsystems[c] # NoPath
             /\ unusable_subsystems \cap DOMAIN subsystems = {}
             /\ paths = Range(subsystems)

\* a controller has been demoted, another is still in the mapping
C7_Witness ==
    /\ valid
    /\ pc = "idle"
    /\ call.n = MaxCalls
    /\ \E c \in unusable_subsystems : c \in DOMAIN denied_subsystems
    /\ DOMAIN subsystems # {}

\* what C8 says of the step create_fresh_child_cgroup(S) on a usable instance
C8_Creates(S) ==
    /\ ~(S \subseteq DOMAIN subsystems) =>
           /\ call'.res = "AssertionError"
           /\ dirs' = dirs
           /\ child' = << >>
    /\ call'.res = "ok" =>
           /\ S \subseteq DOMAIN subsystems
           /\ dirs \subseteq dirs'
           /\ Cardinality(dirs' \ dirs) = Cardinality({subsystems[c] : c \in S})
           /\ \A d \in dirs' \ dirs : \E c \in S : Parent(d) = subsystems[c]
           /\ DOMAIN child' = S
           /\ \A c \in S : child'[c] \in dirs' \ dirs /\ Parent(child'[c]) = subsystems[c]

(* C8: create_fresh_child_cgroup(S), S a subset of the instance's controllers, creates
   exactly one directory per distinct parent path of the controllers of S, each a
   direct child of that path, and returns a group whose mapping has exactly the
   controllers of S, each mapped to the child created under its parent path; if S
   has a controller that is not in the instance, the call fails and creates
   nothing. *)
C8_CreateFreshChild ==
    [][ (call'.op = "create_fresh_child_cgroup" /\ call'.n = call.n + 1 /\ valid)
            => C8_Creates(call'.arg) ]_vars

\* a child was created for two controllers that share a parent path
C8_Witness ==
    /\ Ended("create_fresh_child_cgroup")
    /\ call.res = "ok"
    /\ call.arg = DOMAIN child
    /\ Cardinality(DOMAIN child) = 3
    /\ Cardinality(Range(child)) = 2
    /\ Range(child) \subseteq dirs

\* the operations C9 names
Operations == {"contains", "add_task", "create_fresh_child_cgroup", "kill_all_tasks",
               "require_subsystem", "remove"}

(* C9: remove() goes through every distinct path of the instance and then
   invalidates it: once remove() has returned the instance stays invalid, and every
   later membership check, add_task, create_fresh_child_cgroup, kill_all_tasks,
   require_subsystem or remove fails without acting on the filesystem. *)
C9_RemoveInvalidates ==
    [][ /\ (call'.op = "remove" /\ call'.n = call.n + 1 /\ valid) =>
               (call'.res = "" /\ r'.todo = paths)
        /\ (call.op = "remove" /\ call.res = "" /\ r.todo # {}) => call'.res # "ok"
        /\ (call.op = "remove" /\ call.res = "" /\ call'.res = "ok") => ~valid'
        /\ ~valid => ~valid'
        /\ (~valid /\ call'.n = call.n + 1 /\ call'.op \in Operations) =>
               /\ call'.res = "AttributeError"
               /\ pc' = "returned"
               /\ UNCHANGED <<fsVars, selfVars>>
      ]_vars

\* an operation was called on the removed instance
C9_Witness ==
    /\ ~valid
    /\ Ended("require_subsystem")
    /\ call.res = "AttributeError"

\* what C10 says of the step handle_errors(C) with the given answers of stat (asked
\* only if every controller of C is denied) and systeminfo
C10_Handles(C, st, has_systemd, is_debian) ==
    /\ C = {} =>
           /\ call'.res = "ok"
           /\ pc' = "returned"
           /\ UNCHANGED <<fsVars, selfVars, logged>>
    /\ (C # {} /\ C \subseteq unusable_subsystems) =>
           /\ pc' = "exited"
           /\ call'.res = IF C \subseteq DOMAIN denied_subsystems
                          THEN "exit_permissions" ELSE "exit_other"
           /\ call'.res = "exit_permissions" =>
                  call'.hint =
                      IF /\ \A p \in Range(denied_subsystems) : ~st[p].err /\ st[p].wgrp
                         /\ \A p \in Range(denied_subsystems) : st[p].gid # 0
                      THEN "GROUPS"
                      ELSE IF has_systemd /\ is_debian THEN "DEBIAN"
                      ELSE IF has_systemd THEN "SYSTEMD"
                      ELSE "OTHER"

(* C10: handle_errors(C) returns without effect if C is empty; if C is a non-empty
   set of unusable controllers it ends the host process, with the permission
   message iff every controller of C is in the denied map and the generic message
   otherwise; in the permission case the hint is the group hint iff all denied
   paths are group-writable and none is owned by the root group, otherwise the
   Debian, systemd or other hint by init system and distribution. *)
C10_HandleErrors ==
    [][ (call'.op = "handle_errors" /\ call'.n = call.n + 1)
            => C10_Handles(call'.arg, call'.stat, call'.systemd, call'.debian) ]_vars

\* the host process was ended with the group hint for two denied paths
C10_Witness ==
    /\ pc = "exited"
    /\ call.res = "exit_permissions"
    /\ call.hint = "GROUPS"
    /\ call.arg = DOMAIN denied_subsystems
    /\ Cardinality(Range(denied_subsystems)) = 2

(* ------------------------ kill_all_tasks ends ------------------------- *)
\* a call of kill_all_tasks is under way
KillRuns == call.op = "kill_all_tasks" /\ call.res = ""

\* C22: if every process that is sent SIGKILL exits and finitely many processes
\* are created, a call of kill_all_tasks ends: it returns or raises
C22_KillAllTasksEnds == KillRuns ~> Ended("kill_all_tasks")

\* kill_all_tasks returned after a loop that had to wait for a process that was
\* created while the call went on
C22_Witness ==
    /\ Ended("kill_all_tasks")
    /\ call.res = "ok"
    /\ \E p \in Pids : p > 1 /\ proc[p].st = "gone"

(* ----------------------- phase 2 of kill_all_tasks -------------------- *)
\* a pass of phase 2 over the membership file has sent its signal and goes on
Phase2Pass == pc = "p_signal" /\ f.ensure_empty /\ pc' # pc

\* the loop returns iff the pass found no pid; a pass that found one is followed
\* by a sleep of attempt * 0.5 and by the next pass; the attempt number grows with
\* every pass (everyPass) or after the last of the three signals
C21_Steps(everyPass) ==
    Phase2Pass =>
        /\ f.snap = {} <=> pc' # "p_read"
        /\ pc' \in {"r_has_tasks", "r_rmdir"} => f.snap = {}
        /\ f.snap # {} =>
               /\ f'.slept = f.i
               /\ f'.i = IF everyPass \/ f.sig = Len(Signals) THEN f.i + 1 ELSE f.i
               /\ f'.i >= f.i

\* the original statement: the attempt number increases by one with each pass
C21_AsStated == [][C21_Steps(TRUE)]_vars

\* C21: in phase 2 the kill loop over a directory stops only when a pass finds no
\* pid (or no file), and only then the directory may be deleted; every pass that
\* finds a pid is followed by a sleep of attempt * 0.5 before the next pass, where
\* attempt starts at 1 and increases by one after every third pass (one pass per
\* signal); the loop has no other exit
C21_Phase2Backoff == [][C21_Steps(FALSE)]_vars

\* the fifth pass of a loop is about to read the file: the fourth one, the first
\* of the second attempt, found a pid and slept twice the first sleep
C21_Witness ==
    /\ pc = "p_read"
    /\ f.ensure_empty
    /\ f.i = 2
    /\ f.sig = 2
    /\ f.slept = 2

(* C23: _remove_cgroup(path). A directory that does not exist is passed over
   with no os.rmdir; a directory that exists is tried at most twice, the second
   time only after the first os.rmdir failed; when the second os.rmdir fails too
   the directory stays and the caller goes on with its next step, nothing is
   raised. (The text of the warnings is not followed.) *)
RmdirAttempt == pc \in {"r_rmdir", "r_rmdir_again"} /\ pc' # pc

OnlyRemoved(d) == dirs' \subseteq dirs /\ dirs \ dirs' \subseteq {d}

C23_Steps ==
    /\ (pc = "r_next" /\ r'.todo # r.todo) =>
           LET d == CHOOSE x \in r.todo : x \notin r'.todo
           IN  /\ dirs' = dirs
               /\ IF d \in dirs
                  THEN pc' = "r_has_tasks" /\ r'.cur.p = d
                  ELSE pc' = "r_next" /\ call' = call
    /\ (pc = "r_has_tasks" /\ pc' # pc) => dirs' = dirs
    /\ RmdirAttempt =>
           /\ r.cur.p \notin r.todo
           /\ OnlyRemoved(r.cur.p)
           /\ call' = call
           /\ pc' # "returned"
           /\ pc' # "r_rmdir"
           /\ pc' = "r_rmdir_again" <=> (pc = "r_rmdir" /\ dirs' = dirs)

C23_RemoveCgroup == [][C23_Steps]_vars

\* remove() has returned although a directory of the instance is still there:
\* both os.rmdir of that directory failed
C23_Witness ==
    /\ Ended("remove")
    /\ call.res = "ok"
    /\ \E d \in paths : d \in dirs

(* C24: when kill_all_tasks() has ended after it wrote FROZEN to freezer.state,
   it has written THAWED to that file as well, whether it returned or raised,
   and the group is not frozen (nor freezing) any more. *)
C24_ThawedBeforeTheEnd ==
    (Ended("kill_all_tasks") /\ call.froze) =>
        /\ call.thawed
        /\ freezer.st = "THAWED"

\* the same where the call did not end in the TypeError of a descendant group, and
\* but for the write that fails because the group is gone
C24_ThawedUnlessTypeError ==
    (Ended("kill_all_tasks") /\ call.froze /\ call.res # "TypeError") =>
        /\ freezer.st = "THAWED"
        /\ call.thawed \/ (call.res = "FileNotFoundError" /\ subsystems[FREEZE] \notin dirs)

(* C25: what kill_all_tasks() leaves alone. No step of it changes the mapping,
   the distinct paths, the unusable set, the denied map or the validity of the
   instance; a directory it deletes is a descendant of a distinct path, never a
   distinct path itself; and it returns normally only from the loop over all
   distinct paths, in which each path was left by a pass that read no pid from
   its membership file. *)
KillStep ==
    /\ call'.op = "kill_all_tasks"
    /\ pc # "returned"
    /\ <<pc, k, f, r>>' # <<pc, k, f, r>>

C25_Steps ==
    /\ UNCHANGED <<subsystems, paths, unusable_subsystems, denied_subsystems, valid>>
    /\ dirs' \subseteq dirs
    /\ \A d \in dirs \ dirs' : d \notin paths /\ \E top \in paths : IsUnder(d, top)
    /\ call'.res = "ok" => (pc = "k_next" /\ k.phase = 2 /\ k.todo = {})
    /\ (k.phase # 2 /\ k'.phase = 2) => (pc' = "k_next" /\ k'.todo = paths)
    /\ (k.phase = 2 /\ k'.phase = 2 /\ k'.todo # k.todo) =>
           /\ pc = "k_next"
           /\ k'.top \in k.todo
           /\ k'.todo = k.todo \ {k'.top}
           /\ k'.delete
    /\ (k.phase = 2 /\ pc # "k_next" /\ pc' = "k_next") =>
           /\ pc = "p_signal"
           /\ f.caller = "top"
           /\ f.ensure_empty
           /\ f.cg.p = k.top
           /\ f.snap = {}

C25_KillLeavesTheInstance == [][KillStep => C25_Steps]_vars

\* kill_all_tasks() has returned on an instance with a freezer and two distinct
\* paths, a process of the group is gone, and every directory of the instance is there
C25_Witness ==
    /\ Ended("kill_all_tasks")
    /\ call.res = "ok"
    /\ valid
    /\ FREEZE \in DOMAIN subsystems
    /\ Cardinality(paths) = 2
    /\ paths \subseteq dirs
    /\ \E p \in Pids : proc[p].st = "gone"

(* C26: as long as the instance has not been removed, its distinct paths are
   exactly the paths its mapping gives to the controllers in it, every controller
   of the denied map is in the unusable set, and no controller of the denied map
   is in the mapping. *)
C26_DerivedState ==
    valid =>
        /\ \A d \in paths : \E c \in DOMAIN subsystems : subsystems[c] = d
        /\ \A c \in DOMAIN subsystems : subsystems[c] \in paths
        /\ \A c \in DOMAIN denied_subsystems :
               c \in unusable_subsystems /\ c \notin DOMAIN subsystems

\* require_subsystem has just returned false for a controller it was denied access
\* to, whose path another controller of the mapping still has; an earlier call
\* has taken a controller with a path of its own out of the mapping
C26_Witness ==
    /\ valid
    /\ Ended("require_subsystem")
    /\ call.res = "False"
    /\ \E c \in DOMAIN denied_subsystems :
           \E x \in DOMAIN subsystems : subsystems[x] = denied_subsystems[c]
    /\ \E c \in unusable_subsystems : c \notin DOMAIN denied_subsystems

\* the step is a call of create_fresh_child_cgroup
CreateCalled == call'.op = "create_fresh_child_cgroup" /\ call'.n = call.n + 1

(* C27: create_fresh_child_cgroup is all-or-nothing: when it fails, no directory
   it created is left, and however it ends the mapping, the distinct paths, the
   unusable set and the denied map of the parent instance are unchanged. *)
C27_AllOrNothing ==
    [][ CreateCalled =>
            /\ call'.res # "ok" => dirs' = dirs
            /\ UNCHANGED <<subsystems, paths, unusable_subsystems, denied_subsystems>>
      ]_vars

\* the part about the parent instance alone
C27_ParentUnchanged ==
    [][ CreateCalled =>
            UNCHANGED <<subsystems, paths, unusable_subsystems, denied_subsystems, valid>>
      ]_vars

(* ----------------------- phase 1 of kill_all_tasks -------------------- *)
\* a step of the program in the first phase, while the group is frozen
Phase1Step == k.phase = 1 /\ pc' # pc

\* the pass over a group in which pids were found returns only after the last of
\* the three signals was sent to them
AllSignalsSent ==
    (pc = "p_signal" /\ f.snap # {} /\ pc' # "p_read") => f.sig = Len(Signals)

\* the pass over a descendant group is entered
DescendantVisited == pc = "k_sub" => pc' = "p_read"

\* C20: in phase 1 every pid found in the freezer group and in each of its
\* descendant groups is sent SIGKILL, SIGINT and SIGTERM, in a pass that does not
\* wait for the group to become empty
C20_Phase1SendsAllSignals ==
    [][Phase1Step => (AllSignalsSent /\ DescendantVisited)]_vars

(* ------------------------------ add_task ------------------------------ *)
\* C16: when add_task(pid) returns, pid was written once to the tasks file of every
\* distinct path of the instance, also where controllers share a path, and pid is a
\* member of all of them; whatever the rule daemon answers, the call does what it
\* does when the process is registered
C16_AddTaskAttachesEverywhere ==
    [][(pc = "idle" /\ call'.op = "add_task") =>
           \A pid \in Pids : \A order \in Orders(IF valid THEN paths ELSE {}) :
               \A daemon \in DaemonStates :
                   add_task(pid, order, daemon) =>
                       /\ add_task(pid, order, "registered")
                       /\ call'.res = "ok" =>
                              /\ paths \subseteq proc'[pid].grp
                              /\ Len(Added(pid, order).written) = Cardinality(paths)
                              /\ Range(Added(pid, order).written) = paths]_vars

\* a process was added to an instance whose three controllers have two paths
C16_Witness ==
    /\ Ended("add_task")
    /\ call.res = "ok"
    /\ valid
    /\ Cardinality(DOMAIN subsystems) = 3
    /\ Cardinality(paths) = 2
    /\ \E pid \in Pids : Alive(pid) /\ paths \subseteq proc[pid].grp


(* ====================== discovery of the host ========================= *)
\* The functions that read the host's files are applied to bounded contents of
\* those files.  A text is a sequence of symbols: a separator (" ", ":", ",",
\* "/") or a word without separators.  `call` is the call being made: its
\* operation, the contents it reads (arg), and, once pc = "returned", its result.

\* a mount table has at most MaxLines lines
MaxLines == 3

CGROUPS_V1 == "CGROUPS_V1"
CGROUPS_V2 == "CGROUPS_V2"
None == "None"

\* str.split(sep): the pieces between the occurrences of sep, empty pieces kept
RECURSIVE Split(_, _)
Split(s, sep) ==
    IF \A i \in 1..Len(s) : s[i] # sep THEN <<s>>
    ELSE LET i == CHOOSE i \in 1..Len(s) : s[i] = sep /\ \A j \in 1..(i - 1) : s[j] # sep
         IN  <<SubSeq(s, 1, i - 1)>> \o Split(SubSeq(s, i + 1, Len(s)), sep)

\* sep.join(pieces), what the kernel does when it writes a line
RECURSIVE Join(_, _)
Join(pieces, sep) ==
    IF pieces = << >> THEN << >>
    ELSE IF Len(pieces) = 1 THEN pieces[1]
    ELSE pieces[1] \o <<sep>> \o Join(Tail(pieces), sep)

\* seq[i] of Python, indices from 0
At(seq, i) == seq[i + 1]

\* a line of /proc/mounts: device, mount point, type, options, dump, pass
MountLine(dir, fstype, options) ==
    Join(<< <<"none">>, <<dir>>, <<fstype>>, Join([i \in DOMAIN options |-> <<options[i]>>], ","),
            <<"0">>, <<"0">> >>, " ")

\* a file: whether it can be read, and its lines
File(lines) == [readable |-> TRUE, lines |-> lines]
Unreadable == [readable |-> FALSE, lines |-> << >>]

\* the result of a call: the exception it raised ("": none) and the value it returned
Returns(value) == [raised |-> "", value |-> value]
Raises(exception) == [raised |-> exception, value |-> None]

\* variant: a unified entry counts whatever was seen before
UnifiedWhenever(version) == TRUE

\* "and version != CGROUPS_V1"
UnifiedUnlessMultiHierarchy(version) == version # CGROUPS_V1

\* the loop over the lines of /proc/mounts, from line i on
RECURSIVE VersionLoop(_, _, _)
VersionLoop(mountsFile, i, version) ==
    IF i > Len(mountsFile) THEN version
    ELSE LET mount == Split(mountsFile[i], " ")
         IN  VersionLoop(mountsFile, i + 1,
                 IF At(mount, 2) = <<"cgroup">> THEN CGROUPS_V1
                 ELSE IF At(mount, 2) = <<"cgroup2">> /\ UnifiedUnlessMultiHierarchy(version)
                      THEN CGROUPS_V2
                      ELSE version)

\* _get_cgroup_version(): an OSError is logged and None is returned; the exception
\* raised when no version was found is no OSError and leaves the function
get_cgroup_version(mounts) ==
    IF ~mounts.readable THEN Returns(None)
    ELSE LET version == VersionLoop(mounts.lines, 1, None)
         IN  IF version = None THEN Raises("BenchExecException") ELSE Returns(version)

\* the types of the file systems mounted: the two cgroup types and another one
FsTypes == {"cgroup", "cgroup2", "proc"}

\* the mount tables by the types of their lines
TypeTables == UNION {[1..n -> FsTypes] : n \in 0..MaxLines}

\* a mount table whose i-th line mounts a file system of type types[i]
TableOf(types) == File([i \in DOMAIN types |-> MountLine("/m", types[i], <<"rw">>)])

MountTables == {TableOf(types) : types \in TypeTables} \cup {Unreadable}

\* the types of the lines of a table
TypesIn(mounts) == {At(Split(mounts.lines[i], " "), 2)[1] : i \in DOMAIN mounts.lines}

\* the call of op with the contents arg is about to be made
Pending(op, arg) == [NoCall EXCEPT !.op = op, !.arg = arg]

\* the call under way returns res
Applied(op, res) ==
    /\ pc = "idle"
    /\ call.op = op
    /\ pc' = "returned"
    /\ call' = [call EXCEPT !.n = 1, !.res = res]
    /\ UNCHANGED <<fsVars, selfVars, child, logged, k, f, r, q, foreign>>

\* the call that has returned
Done(op) == pc = "returned" /\ call.op = op

detect_version == Applied("_get_cgroup_version", get_cgroup_version(call.arg))

\* C11: over a readable mount table, detection returns GEN1 iff the table has a
\* multi-hierarchy entry, and GEN2 iff it has a unified entry and no
\* multi-hierarchy entry, whatever the order of the lines
C11_VersionDetection ==
    (Done("_get_cgroup_version") /\ call.arg.readable) =>
        /\ ("cgroup" \in TypesIn(call.arg)) <=> (call.res = Returns(CGROUPS_V1))
        /\ ("cgroup2" \in TypesIn(call.arg) /\ "cgroup" \notin TypesIn(call.arg))
               <=> (call.res = Returns(CGROUPS_V2))

\* a hybrid table whose unified line comes first was reported as GEN1
C11_Witness ==
    /\ Done("_get_cgroup_version")
    /\ call.arg = TableOf(<<"cgroup2", "cgroup">>)
    /\ call.res = Returns(CGROUPS_V1)

\* C12: over a readable mount table with neither a multi-hierarchy nor a unified
\* entry, detection returns normally and reports no version
C12_NeitherIsUnknown ==
    (Done("_get_cgroup_version") /\ call.arg.readable
         /\ TypesIn(call.arg) \cap {"cgroup", "cgroup2"} = {})
        => call.res = Returns(None)

(* --------------------------- own groups ------------------------------- *)
\* /proc/self/cgroup has at most MaxOwn lines
MaxOwn == 2

Whitespace == {" ", "\n"}

\* str.strip(): leading and trailing whitespace removed
RECURSIVE strip(_)
strip(s) ==
    IF s # << >> /\ Head(s) \in Whitespace THEN strip(Tail(s))
    ELSE IF s # << >> /\ s[Len(s)] \in Whitespace THEN strip(SubSeq(s, 1, Len(s) - 1))
    ELSE s

\* seq[i:] of Python
From(seq, i) == SubSeq(seq, i + 1, Len(seq))

\* the IndexError of _parse_proc_pid_cgroup: the pairs yielded before it, and the
\* split line its message shows
RaisesIndexError(yielded, ownCgroup) ==
    [raised |-> "IndexError", value |-> yielded, naming |-> ownCgroup]

\* _parse_proc_pid_cgroup(content), from line i on: the pairs (subsystem, path)
RECURSIVE ParseLoop(_, _, _)
ParseLoop(content, i, yielded) ==
    IF i > Len(content) THEN Returns(yielded)
    ELSE LET ownCgroup == Split(strip(content[i]), ":")
         IN  IF Len(ownCgroup) < 3 THEN RaisesIndexError(yielded, ownCgroup)
             ELSE LET path == From(At(ownCgroup, 2), 1)
                      subsystem == Split(At(ownCgroup, 1), ",")
                  IN  ParseLoop(content, i + 1,
                          yielded \o [j \in DOMAIN subsystem |-> <<subsystem[j], path>>])

parse_proc_pid_cgroup(content) == ParseLoop(content, 1, << >>)

\* a line of /proc/<pid>/cgroup as the kernel writes it
OwnLine(id, controllers, path) ==
    Join(<< <<id>>, Join([i \in DOMAIN controllers |-> <<controllers[i]>>], ","), path >>, ":")
        \o <<"\n">>

\* the controller lists of a line: one controller, two co-mounted, a named
\* hierarchy without controller
ControllerLists == {<<MEMORY>>, <<CPU, FREEZE>>, <<"name=systemd">>}

\* the paths of a group: the root, a group, a group whose name holds a colon
OwnPaths == {<<"/">>, <<"/", "a">>, <<"/", "a", ":", "b">>}

\* the lines of the form id:c1,...,cn:/p, and lines without the path field
OwnLines ==
    {OwnLine("1", cs, p) : cs \in ControllerLists, p \in OwnPaths}
        \cup {Join(<< <<"1">>, <<MEMORY>> >>, ":") \o <<"\n">>, <<"\n">>}

OwnContents == UNION {[1..n -> OwnLines] : n \in 0..MaxOwn}

parse_own_groups == Applied("_parse_proc_pid_cgroup", parse_proc_pid_cgroup(call.arg))

\* the positions of the colons of a line
Colons(line) == {i \in 1..Len(line) : line[i] = ":"}

\* the position of the n-th colon of a line that has n colons
RECURSIVE NthColon(_, _)
NthColon(line, n) ==
    LET first == CHOOSE i \in Colons(line) : \A j \in Colons(line) : i <= j
    IN  IF n = 1 THEN first
        ELSE first + NthColon(SubSeq(line, first + 1, Len(line)), n - 1)

\* the line without its end-of-line
Chomp(line) == IF line # << >> /\ line[Len(line)] = "\n" THEN SubSeq(line, 1, Len(line) - 1) ELSE line

\* the line has the path field
HasPathField(line) == Cardinality(Colons(line)) >= 2

\* the controllers and the path of a line id:c1,...,cn:/p: the path is all that
\* follows the second colon
ControllersOf(line) ==
    Split(SubSeq(Chomp(line), NthColon(line, 1) + 1, NthColon(line, 2) - 1), ",")
PathOf(line) == SubSeq(Chomp(line), NthColon(line, 2) + 1, Len(Chomp(line)))

\* one pair (ci, p without its leading separator) per controller, in line order and
\* controller order
RECURSIVE PairsOf(_)
PairsOf(content) ==
    IF content = << >> THEN << >>
    ELSE [j \in DOMAIN ControllersOf(content[1]) |->
              <<ControllersOf(content[1])[j], Tail(PathOf(content[1]))>>]
         \o PairsOf(Tail(content))

\* C14: lines of the form id:c1,...,cn:/p yield one pair (ci, p without the leading
\* separator) per controller, in order; a line without the path field makes the
\* parsing fail with an error that names this line
C14_OwnGroupParsing ==
    Done("_parse_proc_pid_cgroup") =>
        IF \A i \in DOMAIN call.arg : HasPathField(call.arg[i])
        THEN call.res = Returns(PairsOf(call.arg))
        ELSE LET i == CHOOSE i \in DOMAIN call.arg :
                          /\ ~HasPathField(call.arg[i])
                          /\ \A j \in 1..(i - 1) : HasPathField(call.arg[j])
             IN  /\ call.res.raised = "IndexError"
                 /\ Join(call.res.naming, ":") = Chomp(call.arg[i])

(* ---------------------------- from_system ----------------------------- *)
\* "system.slice/benchexec-cgroup.service"
CGROUP_FALLBACK_PATH == <<"system.slice", "/", "benchexec-cgroup.service">>

\* pathlib: mount / path; an absolute path replaces the mount, an empty one adds nothing
PathDiv(mount, path) ==
    IF path = << >> THEN mount
    ELSE IF Head(path) = "/" THEN path
    ELSE mount \o <<"/">> \o path

\* dict(pairs): a later pair replaces an earlier one with the same key
RECURSIVE DictLoop(_, _, _)
DictLoop(pairs, i, m) ==
    IF i > Len(pairs) THEN m
    ELSE DictLoop(pairs, i + 1, With(m, pairs[i][1], pairs[i][2]))

dict(pairs) == DictLoop(pairs, 1, << >>)

\* the names of known_subsystems as words of a text
KnownOptions == {<<c>> : c \in known_subsystems}

\* _find_cgroup_mounts(): the pairs (option, mountpoint) of the lines of type cgroup,
\* for the options that are known subsystems; nothing if the table cannot be read
RECURSIVE MountsLoop(_, _, _)
MountsLoop(mountsFile, i, yielded) ==
    IF i > Len(mountsFile) THEN yielded
    ELSE LET mount == Split(mountsFile[i], " ")
             mountpoint == At(mount, 1)
             options == Split(At(mount, 3), ",")
             known == SelectSeq(options, LAMBDA option : option \in KnownOptions)
         IN  MountsLoop(mountsFile, i + 1,
                 IF At(mount, 2) = <<"cgroup">>
                 THEN yielded \o [j \in DOMAIN known |-> <<known[j], mountpoint>>]
                 ELSE yielded)

find_cgroup_mounts(mounts) ==
    IF mounts.readable THEN MountsLoop(mounts.lines, 1, << >>) ELSE << >>

\* _find_own_cgroups(): an OSError is logged and nothing is yielded; the IndexError
\* of the parser is not caught
find_own_cgroups(own) ==
    IF own.readable THEN parse_proc_pid_cgroup(own.lines) ELSE Returns(<< >>)

\* an instance: its class and its mapping from controller to path
Instance(class, mapping) == [class |-> class, subsystems |-> mapping]

\* the loop of from_system over the mounts found, from the i-th on
RECURSIVE ParentsLoop(_, _, _, _, _, _)
ParentsLoop(found, i, my_cgroups, host, fallback, cgroupsParents) ==
    IF i > Len(found) THEN Returns(Instance("CgroupsV1", cgroupsParents))
    ELSE LET subsystem == found[i][1]
             mount == found[i][2]
         IN  IF mount \notin host.accessible
             THEN ParentsLoop(found, i + 1, my_cgroups, host, fallback, cgroupsParents)
             ELSE IF subsystem \notin DOMAIN my_cgroups THEN Raises("KeyError")
             ELSE LET cgroupPath == PathDiv(mount, my_cgroups[subsystem])
                      fallbackPath == PathDiv(mount, CGROUP_FALLBACK_PATH)
                  IN  ParentsLoop(found, i + 1, my_cgroups, host, fallback,
                          With(cgroupsParents, subsystem,
                               IF fallback /\ ~host.writable /\ host.fallbackdir
                               THEN fallbackPath ELSE cgroupPath))

\* CgroupsV1.from_system(cgroup_procinfo, fallback) on a host: host.own is
\* /proc/self/cgroup, or the lines passed as cgroup_procinfo
from_system(host, fallback) ==
    LET own == find_own_cgroups(host.own)
    IN  IF own.raised # "" THEN Raises(own.raised)
        ELSE ParentsLoop(find_cgroup_mounts(host.mounts), 1, dict(own.value),
                         host, fallback, << >>)

\* Cgroups.initialize(); cgroupsv2.initialize() is taken to return an instance
initialize(host) ==
    LET version == get_cgroup_version(host.mounts)
    IN  IF version.raised # "" THEN version
        ELSE IF version.value = CGROUPS_V1 THEN from_system(host, TRUE)
        ELSE IF version.value = CGROUPS_V2 THEN Returns(Instance("CgroupsV2", << >>))
        ELSE Returns(Instance("_DummyCgroups", << >>))

\* the mount points of the hosts
MountPoints == {<<"/m">>, <<"/c">>}

\* the lines of the mount tables of the hosts: the memory controller, two
\* co-mounted controllers, the unified hierarchy
HostMountLines ==
    {MountLine("/m", "cgroup", <<"rw", MEMORY>>),
     MountLine("/c", "cgroup", <<CPU, FREEZE>>),
     MountLine("/u", "cgroup2", <<"rw">>)}

HostMounts == {File(t) : t \in UNION {[1..n -> HostMountLines] : n \in 0..MaxOwn}}
                  \cup {Unreadable}

\* the lines of the own-group records of the hosts
HostOwnLines ==
    {OwnLine("1", <<MEMORY>>, <<"/", "a">>),
     OwnLine("2", <<CPU, FREEZE>>, <<"/">>),
     OwnLine("1", <<MEMORY>>, <<"/", "a", ":", "b">>),
     Join(<< <<"1">>, <<MEMORY>> >>, ":") \o <<"\n">>}

HostOwns == {File(t) : t \in UNION {[1..n -> HostOwnLines] : n \in 0..MaxOwn}}
                \cup {Unreadable}

\* a host: its two files, the mount points os.access finds, whether the own group
\* is writable, whether the fallback group is a directory
Hosts ==
    [mounts : HostMounts, own : HostOwns, accessible : SUBSET MountPoints,
     writable : BOOLEAN, fallbackdir : BOOLEAN]

discover(fallback) ==
    /\ call.op = "from_system"
    /\ call.arg.fallback = fallback
    /\ Applied("from_system", from_system(call.arg.host, fallback))

initialize_host == Applied("initialize", initialize(call.arg.host))

\* C13: initialize() returns an instance and never raises, whatever the mount table
\* and the own-group record hold and whether or not they can be read
C13_InitializeAlwaysReturns ==
    Done("initialize") =>
        /\ call.res.raised = ""
        /\ call.res.value.class \in {"CgroupsV1", "CgroupsV2", "_DummyCgroups"}

\* the lines of a mount table that mount controller c at an accessible mount point
MountsOf(c, host) ==
    {i \in DOMAIN host.mounts.lines :
        LET mount == Split(host.mounts.lines[i], " ")
        IN  /\ At(mount, 2) = <<"cgroup">>
            /\ \E j \in DOMAIN Split(At(mount, 3), ",") : Split(At(mount, 3), ",")[j] = <<c>>
            /\ At(mount, 1) \in host.accessible}

\* the lines of the own-group record that list controller c
OwnLinesOf(c, host) ==
    {i \in DOMAIN host.own.lines :
        \E j \in DOMAIN ControllersOf(host.own.lines[i]) :
            ControllersOf(host.own.lines[i])[j] = <<c>>}

Last(S) == CHOOSE i \in S : \A j \in S : j <= i

\* the path discovery is to map controller c to
DiscoveredPath(c, host) ==
    LET mountpoint == At(Split(host.mounts.lines[Last(MountsOf(c, host))], " "), 1)
        own == Tail(PathOf(host.own.lines[Last(OwnLinesOf(c, host))]))
    IN  IF ~host.writable /\ host.fallbackdir
        THEN mountpoint \o <<"/">> \o CGROUP_FALLBACK_PATH
        ELSE IF own = << >> THEN mountpoint ELSE mountpoint \o <<"/">> \o own

\* C17: discovery maps each known controller with an accessible multi-hierarchy
\* mount to mountpoint/own-group-path, or to mountpoint/fallback-path when the own
\* path is not writable and the fallback path is a directory; no other controller
\* is in the mapping
C17_DiscoveryMapping ==
    (/\ Done("from_system")
     /\ call.arg.host.mounts.readable
     /\ call.arg.host.own.readable
     /\ \A i \in DOMAIN call.arg.host.own.lines : HasPathField(call.arg.host.own.lines[i])
     /\ \A c \in known_subsystems :
            MountsOf(c, call.arg.host) # {} => OwnLinesOf(c, call.arg.host) # {})
        => /\ call.res.raised = ""
           /\ DOMAIN call.res.value.subsystems
                  = {<<c>> : c \in {x \in known_subsystems : MountsOf(x, call.arg.host) # {}}}
           /\ \A c \in known_subsystems :
                  MountsOf(c, call.arg.host) # {} =>
                      call.res.value.subsystems[<<c>>] = DiscoveredPath(c, call.arg.host)

(* ---------------------------- read_io_stat ---------------------------- *)
\* blkio.throttle.io_service_bytes has at most MaxIo lines
MaxIo == 2

\* the numerals of the byte counts, IntWords[n + 1] is the numeral of n
IntWords == <<"0", "1", "2">>

\* int(s) succeeds: s is a numeral, whitespace around it apart
IsInt(s) == \E n \in DOMAIN IntWords : strip(s) = <<IntWords[n]>>

\* int(s)
int(s) == (CHOOSE n \in DOMAIN IntWords : strip(s) = <<IntWords[n]>>) - 1

\* variant: "else" in place of elif io_type == "Write"
IsNotRead(io_type) == io_type # <<"Read">>

\* io_type == "Write"
IsWrite(io_type) == io_type = <<"Write">>

\* the loop over the lines, from line i on; unpacking another number of fields
\* than three and int() of another text than a numeral raise ValueError, which
\* is passed over
RECURSIVE IoLoop(_, _, _, _)
IoLoop(lines, i, bytes_read, bytes_written) ==
    IF i > Len(lines) THEN Returns(<<bytes_read, bytes_written>>)
    ELSE LET fields == Split(lines[i], " ")
             io_type == At(fields, 1)
             bytes_amount == At(fields, 2)
         IN  IF Len(fields) # 3 THEN IoLoop(lines, i + 1, bytes_read, bytes_written)
             ELSE IF io_type = <<"Read">>
             THEN IF IsInt(bytes_amount)
                  THEN IoLoop(lines, i + 1, bytes_read + int(bytes_amount), bytes_written)
                  ELSE IoLoop(lines, i + 1, bytes_read, bytes_written)
             ELSE IF IsWrite(io_type)
             THEN IF IsInt(bytes_amount)
                  THEN IoLoop(lines, i + 1, bytes_read, bytes_written + int(bytes_amount))
                  ELSE IoLoop(lines, i + 1, bytes_read, bytes_written)
             ELSE IoLoop(lines, i + 1, bytes_read, bytes_written)

read_io_stat(lines) == IoLoop(lines, 1, 0, 0)

\* the lines of the file: device, kind and count, and lines of another structure
IoLines ==
    {Join(<< <<dev>>, <<kind>>, <<amount>> >>, " ") \o <<"\n">> :
         dev \in {"8:0", "8:16"}, kind \in {"Read", "Write", "Sync"}, amount \in {"1", "2", "x"}}
        \cup {<<"Total", " ", "2", "\n">>,
              <<"8:0", " ", "Read", " ", "1", " ", "2", "\n">>}

IoFiles == UNION {[1..n -> IoLines] : n \in 0..MaxIo}

io_stat == Applied("read_io_stat", read_io_stat(call.arg))

\* the number of separators of a line
Blanks(line) == Cardinality({i \in DOMAIN line : line[i] = " "})

\* the line has three fields, the kind given, and a numeral as byte count
Counted(line, kind) ==
    /\ Blanks(line) = 2
    /\ \E dev \in {"8:0", "8:16"} : \E n \in DOMAIN IntWords :
           line = <<dev, " ", kind, " ", IntWords[n], "\n">>

\* the byte count of a counted line
CountOf(line) == (CHOOSE n \in DOMAIN IntWords : line[5] = IntWords[n]) - 1

\* the sum of the byte counts of the lines of the kind given
RECURSIVE Total(_, _)
Total(lines, kind) ==
    IF lines = << >> THEN 0
    ELSE (IF Counted(Head(lines), kind) THEN CountOf(Head(lines)) ELSE 0)
             + Total(Tail(lines), kind)

\* C19: read_io_stat returns the sums of the byte counts of the three-field lines
\* of kind Read and of kind Write; every other line contributes nothing and the
\* call does not raise
C19_ReadIoStat ==
    Done("read_io_stat") =>
        call.res = Returns(<<Total(call.arg, "Read"), Total(call.arg, "Write")>>)

\* a file with a Write line and a line of another structure was read
C19_Witness ==
    /\ Done("read_io_stat")
    /\ call.arg = << <<"8:16", " ", "Write", " ", "2", "\n">>,
                     <<"Total", " ", "2", "\n">> >>
    /\ call.res = Returns(<<0, 2>>)

(* ------------------------- write_memory_limit ------------------------- *)
\* str(value) of a number
str(value) == IntWords[value + 1]

LimitFile == "memory.limit_in_bytes"
SwapLimitFile == "memory.memsw.limit_in_bytes"

\* how a call that writes files ends: the exception raised ("": none), the errno of
\* an OSError or the message of sys.exit, and the (file, text) pairs written in order
Outcome(raised, detail, written) ==
    [raised |-> raised, value |-> None, detail |-> detail, written |-> written]

\* variant: every rejected write of the swap limit ends the process
IsAnyError(errno) == TRUE

\* e.errno == errno.ENOTSUP
IsUnsupported(errno) == errno = "ENOTSUP"

\* write_memory_limit(limit) on an instance with the memory controller; host tells
\* how util.write_file ends for the two files ("ok" or an errno), whether the swap
\* limit file is a file, and what systeminfo.has_swap() answers
write_memory_limit(limit, host) ==
    LET first == <<LimitFile, str(limit)>>
        second == <<SwapLimitFile, str(limit)>>
    IN  IF host.primary # "ok" THEN Outcome("OSError", host.primary, << >>)
        ELSE IF ~host.present
             THEN IF host.has_swap
                  THEN Outcome("SystemExit", "Kernel misses feature for accounting swap memory",
                               <<first>>)
                  ELSE Outcome("", "", <<first>>)
        ELSE IF host.second = "ok" THEN Outcome("", "", <<first, second>>)
        ELSE IF IsUnsupported(host.second)
             THEN Outcome("SystemExit", "kernel does not allow limiting swap memory", <<first>>)
             ELSE Outcome("OSError", host.second, <<first>>)

\* the limits written, and what the host answers
Limits == 0..(Len(IntWords) - 1)
LimitHosts ==
    [primary : {"ok", "EACCES"}, present : BOOLEAN, has_swap : BOOLEAN,
     second : {"ok", "ENOTSUP", "EINVAL"}]

memory_limit ==
    /\ call.op = "write_memory_limit"
    /\ Applied("write_memory_limit", write_memory_limit(call.arg.limit, call.arg.host))

\* C15: the limit is written to the primary file first; a present swap limit file
\* gets the same value, its rejection as unsupported ends the process, any other
\* failure propagates; an absent one ends the process iff the host has swap and the
\* call returns iff it has none; whenever the process is ended the primary limit
\* has been written
C15_WriteMemoryLimit ==
    (Done("write_memory_limit") /\ call.arg.host.primary = "ok") =>
        LET host == call.arg.host
            limit == IntWords[call.arg.limit + 1]
            res == call.res
        IN  /\ Len(res.written) >= 1
            /\ res.written[1] = <<LimitFile, limit>>
            /\ host.present =>
                   /\ host.second = "ok" =>
                          /\ res.raised = ""
                          /\ res.written = << <<LimitFile, limit>>, <<SwapLimitFile, limit>> >>
                   /\ host.second = "ENOTSUP" =>
                          /\ res.raised = "SystemExit"
                          /\ res.detail = "kernel does not allow limiting swap memory"
                   /\ host.second \notin {"ok", "ENOTSUP"} =>
                          /\ res.raised = "OSError"
                          /\ res.detail = host.second
            /\ ~host.present =>
                   /\ res.written = << <<LimitFile, limit>> >>
                   /\ host.has_swap <=>
                          /\ res.raised = "SystemExit"
                          /\ res.detail = "Kernel misses feature for accounting swap memory"
                   /\ ~host.has_swap <=> res.raised = ""

\* the swap limit file was present and the kernel rejected the write with another
\* error than "unsupported": the error propagated, after the primary limit was written
C15_Witness ==
    /\ Done("write_memory_limit")
    /\ call.arg.host.primary = "ok"
    /\ call.arg.host.present
    /\ call.arg.host.second = "EINVAL"
    /\ call.res.raised = "OSError"
    /\ call.res.written = << <<LimitFile, "2">> >>

(* ------------------- the specification of discovery ------------------- *)
\* no instance is involved: one call is about to be made on a host without groups
InitHost ==
    /\ dirs = {}
    /\ proc = [p \in Pids |-> [st |-> "free", grp |-> {}]]
    /\ freezer = [dir |-> NoPath, st |-> "THAWED"]
    /\ subsystems = << >>
    /\ paths = {}
    /\ unusable_subsystems = {}
    /\ denied_subsystems = << >>
    /\ valid = TRUE
    /\ child = << >>
    /\ logged = [c \in known_subsystems |-> 0]
    /\ pc = "idle"
    /\ k = NoK
    /\ f = NoF
    /\ r = NoR
    /\ q = NoQ
    /\ foreign = 0
    /\ \/ \E mounts \in MountTables : call = Pending("_get_cgroup_version", mounts)
       \/ \E content \in OwnContents : call = Pending("_parse_proc_pid_cgroup", content)
       \/ \E host \in Hosts : \E fallback \in BOOLEAN :
              call = Pending("from_system", [host |-> host, fallback |-> fallback])
       \/ \E host \in Hosts : call = Pending("initialize", [host |-> host])
       \/ \E lines \in IoFiles : call = Pending("read_io_stat", lines)
       \/ \E limit \in Limits : \E host \in LimitHosts :
              call = Pending("write_memory_limit", [limit |-> limit, host |-> host])

NextHost ==
    \/ detect_version
    \/ parse_own_groups
    \/ \E fallback \in BOOLEAN : discover(fallback)
    \/ initialize_host
    \/ io_stat
    \/ memory_limit

SpecHost == InitHost /\ [][NextHost]_vars

(* ========================= the Dummy variant ========================== *)
\* the methods of _DummyCgroups that would change the system, and those that
\* would read from it; the body of each is "pass"
DummyChanges == {"kill_all_tasks", "create_fresh_child_cgroup", "write_memory_limit",
                 "disable_swap"}
DummyReads == {"read_max_mem_usage", "read_mem_pressure", "read_cpu_pressure",
               "read_io_pressure", "read_usage_per_cpu", "read_available_cpus",
               "read_available_mems", "read_io_stat", "has_tasks", "read_memory_limit",
               "read_oom_count"}

\* variant: add_task makes the process a member of the groups of the host
AttachedToAll(pid) == [proc EXCEPT ![pid].grp = dirs]

\* _DummyCgroups.add_task(pid): pass
PassedOver(pid) == proc

dummy_add_task(pid) ==
    /\ CanCall
    /\ child' = << >>
    /\ proc' = PassedOver(pid)
    /\ EndsAtOnce("add_task", "None")
    /\ UNCHANGED <<dirs, freezer, selfVars, logged, foreign>>

\* a method whose body is "pass" returns None
dummy_pass(op) ==
    /\ CanCall
    /\ child' = << >>
    /\ EndsAtOnce(op, "None")
    /\ UNCHANGED <<fsVars, selfVars, logged, foreign>>

\* the groups and the process of the host on which the Dummy instance lives
DummyDirs == Range(ShapePlain)

\* Cgroups.dummy(): _DummyCgroups({})
InitDummy ==
    /\ dirs = DummyDirs
    /\ proc = InitProc({})
    /\ freezer = [dir |-> NoPath, st |-> "THAWED"]
    /\ subsystems = << >>
    /\ paths = {}
    /\ unusable_subsystems = {}
    /\ denied_subsystems = << >>
    /\ valid = TRUE
    /\ child = << >>
    /\ logged = [c \in known_subsystems |-> 0]
    /\ pc = "idle"
    /\ k = NoK
    /\ f = NoF
    /\ r = NoR
    /\ q = NoQ
    /\ foreign = 0
    /\ call = NoCall

\* the methods of the Dummy instance: its own, and remove, require_subsystem and
\* __contains__ of the base class
NextDummy ==
    \/ caller_goes_on
    \/ \E pid \in Pids : dummy_add_task(pid)
    \/ \E op \in DummyChanges \cup DummyReads : dummy_pass(op)
    \/ remove
    \/ remove_next
    \/ \E subsystem \in known_subsystems : require_subsystem(subsystem, "none")
    \/ \E key \in known_subsystems : contains(key)

SpecDummy == InitDummy /\ [][NextDummy]_vars

\* the system is as it was when the instance was made
DummyTouchedNothing ==
    /\ dirs = DummyDirs
    /\ proc = InitProc({})
    /\ freezer = [dir |-> NoPath, st |-> "THAWED"]

\* every read returns no value
DummyReadsNothing == \A op \in DummyReads : Ended(op) => call.res = "None"

\* the original statement: after any sequence of operations nothing was touched,
\* reads return no value, require_subsystem returns false and the mapping is empty
C18_AsStated ==
    /\ DummyTouchedNothing
    /\ DummyReadsNothing
    /\ Ended("require_subsystem") => call.res = "False"
    /\ valid /\ subsystems = << >>

\* C18: on the Dummy variant no operation touches a directory, a file or a process
\* and every read returns no value; until remove() is called the mapping stays
\* empty and require_subsystem returns false, afterwards require_subsystem raises
C18_DummyIsNoOp ==
    /\ DummyTouchedNothing
    /\ DummyReadsNothing
    /\ subsystems = << >>
    /\ Ended("require_subsystem") =>
           call.res = (IF valid THEN "False" ELSE "AttributeError")
    /\ Ended("contains") => call.res = (IF valid THEN "False" ELSE "AttributeError")

\* the third call on the instance, after two other operations, was
\* require_subsystem and returned false
C18_Witness ==
    /\ Ended("require_subsystem")
    /\ call.res = "False"
    /\ call.n = 3
    /\ valid

====
